---- MODULE Spec2Model ----
(***************************************************************************)
(* Tiles-of-interest resolution (yanroy scripts).                          *)
(*                                                                         *)
(* Two resolver scripts are modelled (specification Spec):                 *)
(*   "facts"      scripts/yanroy/build_tiles_of_interest_from_facts.py     *)
(*   "analytical" projects/shared/scripts/yanroy/build_tiles_of_interest.py*)
(* and the polygon extraction that reads their output (SpecNdjson):        *)
(*   "ndjson"     scripts/yanroy/build_field_polygons_ndjson.py            *)
(*                                                                         *)
(* Text is a sequence of one-character strings, so that strip, zfill,      *)
(* upper/lower, digit/letter filtering and the tile-token regex are        *)
(* computed as the code computes them.  Coordinates are integers counting  *)
(* half units of the CRS's linear unit (0.5 is 1, 1.0 is 2).  The bounds   *)
(* of the analytical grid are computed in binary64 and then placed on      *)
(* that lattice.                                                           *)
(***************************************************************************)
EXTENDS Integers, Sequences, FiniteSets, TLC

\* ------------------------------------------------------------------ text

\* The characters of the model, in code-point order.
Chars ==
    << " ", "+", ",", "-", ".", "/",
       "0", "1", "2", "3", "4", "5", "6", "7", "8", "9", ":",
       "A", "B", "C", "D", "E", "F", "G", "H", "I", "J", "K", "L", "M",
       "N", "O", "P", "Q", "R", "S", "T", "U", "V", "W", "X", "Y", "Z",
       "_",
       "a", "b", "c", "d", "e", "f", "g", "h", "i", "j", "k", "l", "m",
       "n", "o", "p", "q", "r", "s", "t", "u", "v", "w", "x", "y", "z" >>

UpperLetters ==
    << "A", "B", "C", "D", "E", "F", "G", "H", "I", "J", "K", "L", "M",
       "N", "O", "P", "Q", "R", "S", "T", "U", "V", "W", "X", "Y", "Z" >>

LowerLetters ==
    << "a", "b", "c", "d", "e", "f", "g", "h", "i", "j", "k", "l", "m",
       "n", "o", "p", "q", "r", "s", "t", "u", "v", "w", "x", "y", "z" >>

DigitChars == << "0", "1", "2", "3", "4", "5", "6", "7", "8", "9" >>

Range(s) == { s[i] : i \in DOMAIN s }

IndexOf(c, s) == CHOOSE i \in DOMAIN s : s[i] = c

\* ord(c)
Ord(c) == IndexOf(c, Chars)

\* ch.isdigit(), ch.isalpha(), ch.isupper(), ch.isspace()
IsDigit(c) == c \in Range(DigitChars)
IsUpper(c) == c \in Range(UpperLetters)
IsLower(c) == c \in Range(LowerLetters)
IsAlpha(c) == IsUpper(c) \/ IsLower(c)
IsSpace(c) == c = " "

\* int(ch) for a digit character
DigitVal(c) == IndexOf(c, DigitChars) - 1

UpperChar(c) == IF IsLower(c) THEN UpperLetters[IndexOf(c, LowerLetters)] ELSE c
LowerChar(c) == IF IsUpper(c) THEN LowerLetters[IndexOf(c, UpperLetters)] ELSE c

\* str.upper(), str.lower()
Upper(s) == [i \in DOMAIN s |-> UpperChar(s[i])]
Lower(s) == [i \in DOMAIN s |-> LowerChar(s[i])]

\* "".join(ch for ch in s if ch.isdigit()) and the same for letters
RECURSIVE DigitsOf(_)
DigitsOf(s) ==
    IF s = <<>> THEN <<>>
    ELSE (IF IsDigit(Head(s)) THEN <<Head(s)>> ELSE <<>>) \o DigitsOf(Tail(s))

RECURSIVE AlphaOf(_)
AlphaOf(s) ==
    IF s = <<>> THEN <<>>
    ELSE (IF IsAlpha(Head(s)) THEN <<Head(s)>> ELSE <<>>) \o AlphaOf(Tail(s))

\* s.replace(c, "")
RECURSIVE Remove(_, _)
Remove(s, c) ==
    IF s = <<>> THEN <<>>
    ELSE (IF Head(s) = c THEN <<>> ELSE <<Head(s)>>) \o Remove(Tail(s), c)

\* str.lstrip(), str.rstrip(), str.strip()
RECURSIVE LStrip(_)
LStrip(s) ==
    IF s # <<>> /\ IsSpace(Head(s)) THEN LStrip(Tail(s)) ELSE s

RECURSIVE RStrip(_)
RStrip(s) ==
    IF s # <<>> /\ IsSpace(s[Len(s)]) THEN RStrip(SubSeq(s, 1, Len(s) - 1)) ELSE s

Strip(s) == RStrip(LStrip(s))

\* str.zfill(width): pad on the left with "0", after a leading sign.
RECURSIVE ZFill(_, _)
ZFill(s, width) ==
    IF Len(s) >= width THEN s
    ELSE IF s # <<>> /\ Head(s) \in {"+", "-"}
         THEN <<Head(s)>> \o ZFill(Tail(s), width - 1)
         ELSE ZFill(<<"0">> \o s, width)

\* Plain string comparison a < b (code-point lexicographic order).
RECURSIVE StrLess(_, _)
StrLess(a, b) ==
    IF b = <<>> THEN FALSE
    ELSE IF a = <<>> THEN TRUE
    ELSE IF Head(a) = Head(b) THEN StrLess(Tail(a), Tail(b))
    ELSE Ord(Head(a)) < Ord(Head(b))

\* Python's None where a text value is expected, and the conversions of
\* a possibly-None value: str(v) and str(v or "").
None == << "<None>" >>
StrOf(v) == IF v = None THEN << "N", "o", "n", "e" >> ELSE v
OrEmpty(v) == IF v = None THEN <<>> ELSE v

\* ------------------------------------------------------- region selector

\* _norm(s)
Norm(s) == Remove(Remove(Lower(Strip(OrEmpty(s))), " "), "_")

FipsColumns ==
    { << "s", "t", "a", "t", "e", "f", "p" >>,
      << "s", "t", "a", "t", "e", "f", "i", "p", "s" >>,
      << "f", "i", "p", "s" >>,
      << "s", "t", "a", "t", "e", "c", "o", "d", "e" >>,
      << "s", "t", "f", "i", "p", "s" >> }

AbbrColumns ==
    { << "s", "t", "u", "s", "p", "s" >>,
      << "s", "t", "a", "t", "e" >>,
      << "s", "t", "a", "t", "e", "a", "b", "b", "r" >>,
      << "s", "t", "a", "t", "e", "a", "b", "b", "r", "e", "v" >>,
      << "s", "t", "a", "t", "e", "p", "o", "s", "t", "a", "l" >> }

\* _parse_state_token without the zero padding of the digits
ParseStateTokenNoPad(raw) ==
    LET val    == Strip(OrEmpty(raw))
        digits == DigitsOf(val)
        alpha  == Upper(AlphaOf(val))
    IN  IF val = <<>> THEN << <<>>, <<>> >>
        ELSE IF Len(digits) \in {1, 2} THEN << digits, <<>> >>
        ELSE IF Len(alpha) = 2 THEN << <<>>, alpha >>
        ELSE << <<>>, <<>> >>

\* _parse_state_token(raw): the headerless reader's token rule,
\* returning <<fips, abbr>>.
ParseStateToken(raw) ==
    LET val    == Strip(OrEmpty(raw))
        digits == DigitsOf(val)
        alpha  == Upper(AlphaOf(val))
    IN  IF val = <<>> THEN << <<>>, <<>> >>
        ELSE IF Len(digits) \in {1, 2} THEN << ZFill(digits, 2), <<>> >>
        ELSE IF Len(alpha) = 2 THEN << <<>>, alpha >>
        ELSE << <<>>, <<>> >>

\* Whether the abbreviation `ab` of a headered cell is kept: exactly two
\* letters in the facts-derived reader, any non-empty run in the analytical one.
AbbrAccepted(script, ab) ==
    IF script = "facts" THEN Len(ab) = 2 ELSE ab # <<>>

\* One (column, cell) pair of a headered row: the codes it adds, as
\* <<set of fips, set of abbr>>.
HeaderCellCodes(script, k, raw) ==
    LET key == Norm(k)
        val == Strip(OrEmpty(raw))
        vv  == DigitsOf(val)
        ab  == Upper(AlphaOf(val))
    IN  IF val = <<>> THEN << {}, {} >>
        ELSE << IF key \in FipsColumns /\ vv # <<>> THEN {ZFill(vv, 2)} ELSE {},
                IF key \in AbbrColumns /\ AbbrAccepted(script, ab) THEN {ab} ELSE {} >>

\* One cell of a headerless row.
TokenCellCodes(raw) ==
    LET p == ParseStateToken(raw)
    IN  << IF p[1] # <<>> THEN {p[1]} ELSE {},
           IF p[2] # <<>> THEN {p[2]} ELSE {} >>

\* The items of one DictReader row: every column name paired with its cell
\* (None where the row is short); of two columns with one name the later wins.
DictItems(fieldnames, row) ==
    LET last(i) == \A j \in DOMAIN fieldnames : fieldnames[j] = fieldnames[i] => j <= i
        keep    == { i \in DOMAIN fieldnames : last(i) }
    IN  { << fieldnames[i], IF i <= Len(row) THEN row[i] ELSE None >> : i \in keep }

UnionOf(S, n) == UNION { x[n] : x \in S }

\* The codes one data row adds, <<set of fips, set of abbr>>:
\* a DictReader row under `fieldnames`, or a plain row of tokens.
CodesOfRow(script, hasHeader, fieldnames, row) ==
    LET cells == IF hasHeader
                 THEN { HeaderCellCodes(script, it[1], it[2]) : it \in DictItems(fieldnames, row) }
                 ELSE { TokenCellCodes(row[i]) : i \in DOMAIN row }
    IN  << UnionOf(cells, 1), UnionOf(cells, 2) >>

\* Whether the codes file is read with a header row.  The facts-derived
\* reader follows csv.Sniffer's verdict (file.sniff, False on a blank
\* sample); the analytical reader always uses DictReader.
HasHeader(script, file) ==
    IF script = "facts" THEN file.rows # <<>> /\ file.sniff ELSE TRUE

\* The analytical reader's `if not rdr.fieldnames`.
NoFieldnames(rows) == rows = <<>> \/ rows[1] = <<>>

\* _read_state_codes(path), as <<error, fips, abbr>>.
RECURSIVE CodesFrom(_, _, _, _, _)
CodesFrom(script, hasHeader, fieldnames, rows, acc) ==
    IF rows = <<>> THEN acc
    ELSE LET add == CodesOfRow(script, hasHeader, fieldnames, Head(rows))
         IN  CodesFrom(script, hasHeader, fieldnames, Tail(rows),
                       << acc[1] \cup add[1], acc[2] \cup add[2] >>)

ReadStateCodes(script, file) ==
    LET hdr  == HasHeader(script, file)
        data == IF hdr /\ file.rows # <<>> THEN Tail(file.rows) ELSE file.rows
        fn   == IF hdr /\ file.rows # <<>> THEN file.rows[1] ELSE <<>>
        got  == CodesFrom(script, hdr, fn, data, << {}, {} >>)
    IN  IF script = "analytical" /\ NoFieldnames(file.rows)
        THEN << "states csv has no header", {}, {} >>
        ELSE IF got[1] = {} /\ got[2] = {}
        THEN << "states csv did not yield any state codes", {}, {} >>
        ELSE << "", got[1], got[2] >>

\* ------------------------------------------------ tile footprint provider

\* text.split(sep)
RECURSIVE SplitAcc(_, _, _)
SplitAcc(s, sep, cur) ==
    IF s = <<>> THEN << cur >>
    ELSE IF Head(s) = sep THEN << cur >> \o SplitAcc(Tail(s), sep, <<>>)
    ELSE SplitAcc(Tail(s), sep, Append(cur, Head(s)))

Split(s, sep) == SplitAcc(s, sep, <<>>)

\* int(digits) for a non-empty run of digit characters
RECURSIVE DecimalAcc(_, _)
DecimalAcc(s, acc) ==
    IF s = <<>> THEN acc ELSE DecimalAcc(Tail(s), 10 * acc + DigitVal(Head(s)))

Decimal(s) == DecimalAcc(s, 0)

AllDigits(s) == \A i \in DOMAIN s : IsDigit(s[i])

\* float(text), in half units: [ok, nan, val].  The decimal forms on the
\* half-unit grid are read ([sign] digits [ "." [ "0" | "5" ] ]), and "nan";
\* any other text is one float() rejects in the inputs of this model.
ParseFloat(text) ==
    LET t      == Strip(text)
        signed == t # <<>> /\ Head(t) \in {"+", "-"}
        neg    == t # <<>> /\ Head(t) = "-"
        body   == IF signed THEN Tail(t) ELSE t
        parts  == Split(body, ".")
        whole  == parts[1]
        frac   == IF Len(parts) = 2 THEN parts[2] ELSE <<>>
        mag    == 2 * Decimal(whole) + (IF frac = << "5" >> THEN 1 ELSE 0)
        bad    == [ok |-> FALSE, nan |-> FALSE, val |-> 0]
    IN  IF Lower(body) = << "n", "a", "n" >> THEN [ok |-> TRUE, nan |-> TRUE, val |-> 0]
        ELSE IF Len(parts) > 2 \/ (whole = <<>> /\ frac = <<>>) \/ ~AllDigits(whole) THEN bad
        ELSE IF frac \notin { <<>>, << "0" >>, << "5" >> } THEN bad
        ELSE [ok |-> TRUE, nan |-> FALSE, val |-> IF neg THEN 0 - mag ELSE mag]

\* a > b on floats: False when either is NaN
FloatGreater(a, b) == ~a.nan /\ ~b.nan /\ a.val > b.val

NoBounds == [ok |-> FALSE, minx |-> 0, miny |-> 0, maxx |-> 0, maxy |-> 0]

\* _parse_bounds without its test that the box is not inverted or flat
ParseBoundsNoOrder(text) ==
    LET raw   == Strip(OrEmpty(text))
        parts == Split(raw, ",")
        f(i)  == ParseFloat(parts[i])
    IN  IF raw = <<>> \/ Len(parts) # 4 THEN NoBounds
        ELSE IF \E i \in 1..4 : ~f(i).ok THEN NoBounds
        ELSE [ok |-> TRUE, minx |-> f(1).val, miny |-> f(2).val,
              maxx |-> f(3).val, maxy |-> f(4).val]

\* _parse_bounds(text): NoBounds for the code's None.
ParseBounds(text) ==
    LET raw   == Strip(OrEmpty(text))
        parts == Split(raw, ",")
        f(i)  == ParseFloat(parts[i])
    IN  IF raw = <<>> THEN NoBounds
        ELSE IF Len(parts) # 4 THEN NoBounds
        ELSE IF \E i \in 1..4 : ~f(i).ok THEN NoBounds
        ELSE IF ~(FloatGreater(f(3), f(1)) /\ FloatGreater(f(4), f(2))) THEN NoBounds
        ELSE [ok |-> TRUE, minx |-> f(1).val, miny |-> f(2).val,
              maxx |-> f(3).val, maxy |-> f(4).val]

\* _TILE_RE = (?i)(h\d{2}v\d{2}) matching at position i of s
TileTokenAt(s, i) ==
    /\ i + 5 <= Len(s)
    /\ LowerChar(s[i]) = "h"
    /\ IsDigit(s[i + 1]) /\ IsDigit(s[i + 2])
    /\ LowerChar(s[i + 3]) = "v"
    /\ IsDigit(s[i + 4]) /\ IsDigit(s[i + 5])

\* _TILE_RE.search(s): the leftmost match's group(1), or <<>> for no match.
TileSearch(s) ==
    LET hits == { i \in DOMAIN s : TileTokenAt(s, i) }
    IN  IF hits = {} THEN <<>>
        ELSE LET i == CHOOSE k \in hits : \A j \in hits : k <= j
             IN  SubSeq(s, i, i + 5)

\* Path(rel).name : the last component, "" when there is none.
PathName(rel) ==
    LET comps == SelectSeq(Split(rel, "/"), LAMBDA c : c # <<>> /\ c # << "." >>)
    IN  IF comps = <<>> THEN <<>> ELSE comps[Len(comps)]

\* Path(name).stem : the name without its last suffix.
PathStem(name) ==
    LET dots == { i \in DOMAIN name : name[i] = "." }
        i    == IF dots = {} THEN 0 ELSE CHOOSE k \in dots : \A j \in dots : j <= k
    IN  IF 1 < i /\ i < Len(name) THEN SubSeq(name, 1, i - 1) ELSE name

\* _normalize_tile_id without its calls of lower()
NormalizeTileIdNoLower(relative_path) ==
    LET rel  == Strip(OrEmpty(relative_path))
        m    == TileSearch(rel)
        name == PathName(rel)
        stem == IF name # <<>> THEN PathStem(name) ELSE rel
    IN  IF rel = <<>> THEN <<>>
        ELSE IF m # <<>> THEN m
        ELSE Strip(IF stem # <<>> THEN stem ELSE rel)

\* _normalize_tile_id(relative_path)
NormalizeTileId(relative_path) ==
    LET rel  == Strip(OrEmpty(relative_path))
        m    == TileSearch(rel)
        name == PathName(rel)
        stem == IF name # <<>> THEN PathStem(name) ELSE rel
    IN  IF rel = <<>> THEN <<>>
        ELSE IF m # <<>> THEN Lower(m)
        ELSE Lower(Strip(IF stem # <<>> THEN stem ELSE rel))

\* A grid index as the tables carry it: an int, a float (8.0), NaN, None,
\* or the blank field of the output.
IntVal(n)   == [k |-> "int", n |-> n]
FloatVal(n) == [k |-> "float", n |-> n]
NaNVal      == [k |-> "nan", n |-> 0]
NoneVal     == [k |-> "none", n |-> 0]
Blank       == [k |-> "blank", n |-> 0]

\* _parse_hv with the two slices exchanged
ParseHvSwapped(tile_id) ==
    LET m    == TileSearch(OrEmpty(tile_id))
        text == Lower(m)
    IN  IF m = <<>> THEN << NoneVal, NoneVal >>
        ELSE << IntVal(Decimal(SubSeq(text, 5, 6))), IntVal(Decimal(SubSeq(text, 2, 3))) >>

\* _parse_hv(tile_id), as <<h, v>>
ParseHv(tile_id) ==
    LET m    == TileSearch(OrEmpty(tile_id))
        text == Lower(m)
    IN  IF m = <<>> THEN << NoneVal, NoneVal >>
        ELSE << IntVal(Decimal(SubSeq(text, 2, 3))), IntVal(Decimal(SubSeq(text, 5, 6))) >>

HasTile(by_tile, tile_id) == \E i \in DOMAIN by_tile : by_tile[i].tile_id = tile_id

\* Whether a facts row passes the reader's filters (path, bounds, crs, id).
RowUsable(row) ==
    /\ Strip(OrEmpty(row.relative_path)) # <<>>
    /\ ParseBounds(OrEmpty(row.bounds)).ok
    /\ Strip(OrEmpty(row.crs)) # <<>>
    /\ NormalizeTileId(Strip(OrEmpty(row.relative_path))) # <<>>

\* The footprint a usable row describes.
FootprintOf(row) ==
    LET rel     == Strip(OrEmpty(row.relative_path))
        bounds  == ParseBounds(OrEmpty(row.bounds))
        tile_id == NormalizeTileId(rel)
        hv      == ParseHv(tile_id)
    IN  [tile_id |-> tile_id, h |-> hv[1], v |-> hv[2],
         crs |-> Strip(OrEmpty(row.crs)),
         minx |-> bounds.minx, miny |-> bounds.miny,
         maxx |-> bounds.maxx, maxy |-> bounds.maxy]

\* The reader's loop with a later row of a tile replacing the kept one
FactsStepLastWins(by_tile, row) ==
    IF ~RowUsable(row) THEN by_tile
    ELSE IF HasTile(by_tile, FootprintOf(row).tile_id)
    THEN [i \in DOMAIN by_tile |->
             IF by_tile[i].tile_id = FootprintOf(row).tile_id THEN FootprintOf(row)
             ELSE by_tile[i]]
    ELSE Append(by_tile, FootprintOf(row))

\* One iteration of the reader's loop: by_tile (in insertion order) after `row`.
FactsStep(by_tile, row) ==
    IF ~RowUsable(row) THEN by_tile
    ELSE IF HasTile(by_tile, FootprintOf(row).tile_id) THEN by_tile
    ELSE Append(by_tile, FootprintOf(row))

RECURSIVE FactsFold(_, _)
FactsFold(by_tile, rows) ==
    IF rows = <<>> THEN by_tile
    ELSE FactsFold(FactsStep(by_tile, Head(rows)), Tail(rows))

\* _read_raster_footprints_from_facts(path), as <<error, footprints>>
ReadRasterFootprints(file) ==
    LET out == FactsFold(<<>>, file.rows)
    IN  IF ~file.header THEN << "raster_facts csv has no header", <<>> >>
        ELSE IF out = <<>>
        THEN << "no usable raster footprints", <<>> >>
        ELSE << "", out >>

\* --------------------------------------------------------------- geometry

\* A geometry: an axis-parallel rectangle grown outward by `buf`, the
\* missing geometry (None) or the empty geometry.
Rect(minx, miny, maxx, maxy) ==
    [kind |-> "rect", minx |-> minx, miny |-> miny, maxx |-> maxx, maxy |-> maxy, buf |-> 0]
NoGeom    == [kind |-> "none", minx |-> 0, miny |-> 0, maxx |-> 0, maxy |-> 0, buf |-> 0]
EmptyGeom == [kind |-> "empty", minx |-> 0, miny |-> 0, maxx |-> 0, maxy |-> 0, buf |-> 0]

\* shapely.geometry.box(minx, miny, maxx, maxy) of a footprint
Box(fp) == Rect(fp.minx, fp.miny, fp.maxx, fp.maxy)

\* A buffer that leaves the geometry as it is
BufferNone(g, d) == g

\* geometry.buffer(d)
Buffer(g, d) == IF g.kind = "rect" THEN [g EXCEPT !.buf = g.buf + d] ELSE g

Max2(a, b) == IF a >= b THEN a ELSE b
Max3(a, b, c) == Max2(a, Max2(b, c))

\* The gaps between two rectangles along x and along y (0 where they overlap).
GapX(a, b) == Max3(0, b.minx - a.maxx, a.minx - b.maxx)
GapY(a, b) == Max3(0, b.miny - a.maxy, a.miny - b.maxy)

\* The `intersects` predicate (touching counts): the distance between
\* the rectangles is at most the sum of their buffers.
Intersects(a, b) ==
    /\ a.kind = "rect" /\ b.kind = "rect"
    /\ GapX(a, b) <= a.buf + b.buf
    /\ GapY(a, b) <= a.buf + b.buf
    /\ GapX(a, b) * GapX(a, b) + GapY(a, b) * GapY(a, b)
         <= (a.buf + b.buf) * (a.buf + b.buf)

\* The coordinate reference systems of the model.
CrsA == << "A" >>
CrsB == << "B" >>
MODIS_SINU_WKT == << "s", "i", "n", "u" >>

\* The analytical grid is computed in binary64. Every number the grid
\* arithmetic meets is a multiple of 2^-32 below 2^27 in magnitude, and is
\* held here as << hi, lo >>, standing for (hi * 2^29 + lo) * 2^-32, with
\* 0 <= lo < 2^29 and hi negative for a negative number.
RECURSIVE Pow2(_)
Pow2(n) == IF n = 0 THEN 1 ELSE 2 * Pow2(n - 1)

RECURSIVE BitLength(_)
BitLength(n) == IF n = 0 THEN 0 ELSE 1 + BitLength(n \div 2)

\* The pair of hi * 2^29 + lo, for any lo
Carry(hi, lo) == << hi + (lo \div Pow2(29)), lo % Pow2(29) >>

\* Sum, negation and integer multiple in exact arithmetic
ExactAdd(a, b) == Carry(a[1] + b[1], a[2] + b[2])
ExactNeg(a) == Carry(-a[1], -a[2])
ExactSub(a, b) == ExactAdd(a, ExactNeg(b))

\* n * a for a natural number n below 2^8, by the halves of lo so that
\* every product stays within 32 bits
ExactTimes(n, a) ==
    LET low  == n * (a[2] % Pow2(15))
        high == n * (a[2] \div Pow2(15)) + (low \div Pow2(15))
    IN  << n * a[1] + (high \div Pow2(14)), (high % Pow2(14)) * Pow2(15) + (low % Pow2(15)) >>

\* A non-negative exact number rounded to the 53 significant bits of a
\* binary64, ties to even
RoundUp(kept, rest, q) ==
    IF rest * 2 > q \/ (rest * 2 = q /\ kept % 2 = 1) THEN kept + 1 ELSE kept

\* m with its bits below q dropped
RoundTo(m, q) == Carry(m[1], RoundUp(m[2] \div q, m[2] % q, q) * q)

RoundMagnitude(m) ==
    IF BitLength(m[1]) + 29 <= 53 THEN m
    ELSE RoundTo(m, Pow2(BitLength(m[1]) + 29 - 53))

Magnitude(x) == IF x[1] < 0 THEN ExactNeg(x) ELSE x
WithSign(negative, m) == IF negative THEN ExactNeg(m) ELSE m

Round64(x) == WithSign(x[1] < 0, RoundMagnitude(Magnitude(x)))

\* a + b, a - b and float(n) * a of binary64 numbers
F64Add(a, b) == Round64(ExactAdd(a, b))
F64Sub(a, b) == Round64(ExactSub(a, b))
F64Mul(n, a) == Round64(ExactTimes(n, a))

F64Less(a, b) == a[1] < b[1] \/ (a[1] = b[1] /\ a[2] < b[2])
F64LessEq(a, b) == a = b \/ F64Less(a, b)

\* A binary64 coordinate on the half-metre lattice of the geometries
HalfMetres(a) == (a[1] + 2) \div 4

\* The binary64 values of the literals -20015109.354, 10007554.677 and
\* 1111950.5196666666
MODIS_XMIN == ExactNeg(<< 160120874, 446676592 >>)
MODIS_YMAX == << 80060437, 223338296 >>
MODIS_TILE_SIZE == << 8895604, 84467690 >>
MODIS_H_MAX == 35
MODIS_V_MAX == 17

\* The bounds _iter_modis_tiles() yields for (h, v)
ModisBounds(h, v) ==
    LET minx == F64Add(MODIS_XMIN, F64Mul(h, MODIS_TILE_SIZE))
        maxx == F64Add(minx, MODIS_TILE_SIZE)
        maxy == F64Sub(MODIS_YMAX, F64Mul(v, MODIS_TILE_SIZE))
        miny == F64Sub(maxy, MODIS_TILE_SIZE)
    IN  [h |-> h, v |-> v, minx |-> minx, miny |-> miny, maxx |-> maxx, maxy |-> maxy]

\* Where the origin of CRS "A" lies in each CRS: reprojection is modelled
\* as the translation between the two systems. In the sinusoidal system
\* the origin lies one metre left of and below the upper left corner of
\* the tile h08v05.
SinuOrigin == << -22239012, 8895602 >>

CrsOrigin(crs) ==
    CASE crs = CrsB -> << 20, 0 >>
      [] crs = MODIS_SINU_WKT -> SinuOrigin
      [] OTHER -> << 0, 0 >>

\* One geometry of gdf.to_crs(dst), from CRS src
ToCrs(g, src, dst) ==
    LET dx == CrsOrigin(dst)[1] - CrsOrigin(src)[1]
        dy == CrsOrigin(dst)[2] - CrsOrigin(src)[2]
    IN  IF g.kind = "rect"
        THEN [g EXCEPT !.minx = @ + dx, !.maxx = @ + dx, !.miny = @ + dy, !.maxy = @ + dy]
        ELSE g

\* f"{n:02d}"
TwoDigits(n) ==
    IF n < 10 THEN << "0", DigitChars[n + 1] >>
    ELSE << DigitChars[(n \div 10) + 1], DigitChars[(n % 10) + 1] >>

\* The tile row built from a tuple b that _iter_modis_tiles() yields, its
\* box on the half-metre lattice
ModisTile(b) ==
    [tile_id |-> << "h" >> \o TwoDigits(b.h) \o << "v" >> \o TwoDigits(b.v),
     h |-> IntVal(b.h), v |-> IntVal(b.v), crs |-> MODIS_SINU_WKT,
     minx |-> HalfMetres(b.minx), miny |-> HalfMetres(b.miny),
     maxx |-> HalfMetres(b.maxx), maxy |-> HalfMetres(b.maxy)]

\* The (h, v) pairs in the order of the two loops, h-major
ModisGrid ==
    [i \in 1..((MODIS_H_MAX + 1) * (MODIS_V_MAX + 1)) |->
        ModisBounds((i - 1) \div (MODIS_V_MAX + 1), (i - 1) % (MODIS_V_MAX + 1))]

IterModisTiles == [i \in DOMAIN ModisGrid |-> ModisTile(ModisGrid[i])]

\* ---------------------------------------------------- intersection resolver

\* A column the boundary source does not have, and row.get(col, default).
Missing == << "<missing>" >>
RowGet(v, default) == IF v = Missing THEN default ELSE v

\* gdf["STATEFP"].astype(str).str.zfill(2) and gdf["STUSPS"].astype(str).str.upper()
\* for one region
FipsOfRegion(r) == ZFill(StrOf(r.STATEFP), 2)
AbbrOfRegion(r) == Upper(StrOf(r.STUSPS))

\* `has_statefp and fips_interest`, `has_stusps and abbr_interest`
UseFips(shp, fips) == shp.has_statefp /\ fips # {}
UseAbbr(shp, abbr) == shp.has_stusps /\ abbr # {}

\* missing_fips and missing_abbr of the facts-derived resolver
MissingFips(shp, fips) ==
    IF UseFips(shp, fips)
    THEN fips \ { FipsOfRegion(shp.regions[i]) : i \in DOMAIN shp.regions }
    ELSE {}
MissingAbbr(shp, abbr) ==
    IF UseAbbr(shp, abbr)
    THEN abbr \ { AbbrOfRegion(shp.regions[i]) : i \in DOMAIN shp.regions }
    ELSE {}

\* `mask is None`: no criterion was applicable
MaskIsNone(shp, fips, abbr) == ~UseFips(shp, fips) /\ ~UseAbbr(shp, abbr)

\* A mask that consults the abbreviations only when no FIPS criterion applies
MaskFipsFirst(shp, fips, abbr, r) ==
    IF UseFips(shp, fips) THEN FipsOfRegion(r) \in fips
    ELSE UseAbbr(shp, abbr) /\ AbbrOfRegion(r) \in abbr

\* The selection mask at one region
Mask(shp, fips, abbr, r) ==
    \/ UseFips(shp, fips) /\ FipsOfRegion(r) \in fips
    \/ UseAbbr(shp, abbr) /\ AbbrOfRegion(r) \in abbr

\* The selection with the mask not applied
SelectedAll(shp, fips, abbr) == shp.regions

\* gdf.loc[mask]
Selected(shp, fips, abbr) ==
    SelectSeq(shp.regions, LAMBDA r : Mask(shp, fips, abbr, r))

\* The checks on the loaded boundary source: "" when they pass.
LoadError(shp) ==
    IF shp.regions = <<>> THEN "state shapefile has no features"
    ELSE IF ~shp.has_statefp /\ ~shp.has_stusps
    THEN "state shapefile missing STATEFP and STUSPS columns"
    ELSE ""

\* The checks of region selection without the check of the missing codes
SelectErrorNoMissing(script, shp, fips, abbr) ==
    IF MaskIsNone(shp, fips, abbr)
    THEN "no matching state columns found for provided codes"
    ELSE IF Selected(shp, fips, abbr) = <<>>
    THEN "no states matched states.of.interest.csv"
    ELSE IF shp.crs = None THEN "state shapefile missing CRS"
    ELSE ""

\* The checks of region selection with the CRS check ahead of the others
SelectErrorCrsFirst(script, shp, fips, abbr) ==
    IF shp.crs = None THEN "state shapefile missing CRS"
    ELSE IF script = "facts" /\ (MissingFips(shp, fips) # {} \/ MissingAbbr(shp, abbr) # {})
    THEN "requested states not found in state shapefile"
    ELSE IF MaskIsNone(shp, fips, abbr)
    THEN "no matching state columns found for provided codes"
    ELSE IF Selected(shp, fips, abbr) = <<>>
    THEN "no states matched states.of.interest.csv"
    ELSE ""

\* The checks of region selection, in the order of the code: "" when they pass.
SelectError(script, shp, fips, abbr) ==
    IF script = "facts" /\ (MissingFips(shp, fips) # {} \/ MissingAbbr(shp, abbr) # {})
    THEN "requested states not found in state shapefile"
    ELSE IF MaskIsNone(shp, fips, abbr)
    THEN "no matching state columns found for provided codes"
    ELSE IF Selected(shp, fips, abbr) = <<>>
    THEN "no states matched states.of.interest.csv"
    ELSE IF shp.crs = None THEN "state shapefile missing CRS"
    ELSE ""

\* footprints_by_crs: the groups in first-seen order, each <<crs_key, footprints>>.
RECURSIVE GroupByCrs(_, _)
GroupByCrs(groups, fps) ==
    IF fps = <<>> THEN groups
    ELSE LET fp   == Head(fps)
             at   == { i \in DOMAIN groups : groups[i][1] = fp.crs }
             next == IF at = {}
                     THEN Append(groups, << fp.crs, << fp >> >>)
                     ELSE LET i == CHOOSE k \in at : TRUE
                          IN  [groups EXCEPT ![i] = << @[1], Append(@[2], fp) >>]
         IN  GroupByCrs(next, Tail(fps))

\* The dtype pandas gives a column of grid indices
ColumnDtype(vals) ==
    IF \A x \in vals : x.k = "int" THEN "int64"
    ELSE IF \A x \in vals : x.k = "none" THEN "object"
    ELSE "float64"

\* A grid index as stored in a column of that dtype
InColumn(x, dtype) ==
    IF dtype = "float64"
    THEN (IF x.k = "int" THEN FloatVal(x.n) ELSE IF x.k = "none" THEN NaNVal ELSE x)
    ELSE x

\* The tile table (tdf) of a list of footprints
TileTable(fps) ==
    LET hd == ColumnDtype({ fps[i].h : i \in DOMAIN fps })
        vd == ColumnDtype({ fps[i].v : i \in DOMAIN fps })
    IN  [i \in DOMAIN fps |->
            [tile_id |-> fps[i].tile_id, h |-> InColumn(fps[i].h, hd),
             v |-> InColumn(fps[i].v, vd), geometry |-> Box(fps[i])]]

\* state_cols: the region columns carried into the join
StateRow(shp, r, geom) ==
    [STATEFP |-> IF shp.has_statefp THEN r.STATEFP ELSE Missing,
     STUSPS |-> IF shp.has_stusps THEN r.STUSPS ELSE Missing,
     geometry |-> geom]

JoinedRow(sr, t) ==
    [STATEFP |-> sr.STATEFP, STUSPS |-> sr.STUSPS,
     tile_id |-> t.tile_id, h |-> t.h, v |-> t.v]

\* gpd.sjoin(left, tiles, how="inner", predicate="intersects"): the pairs
\* in the order of the left rows; `order` (a sequence of tile positions)
\* is the order in which the spatial index lists one row's tiles.
RECURSIVE SJoin(_, _, _)
SJoin(left, tiles, order) ==
    IF left = <<>> THEN <<>>
    ELSE LET sr   == Head(left)
             hits == SelectSeq(order, LAMBDA t : Intersects(sr.geometry, tiles[t].geometry))
         IN  [k \in DOMAIN hits |-> JoinedRow(sr, tiles[hits[k]])]
             \o SJoin(Tail(left), tiles, order)

\* The selected regions reprojected into crs_key, with missing and empty
\* geometries dropped (make_valid leaves a rectangle as it is) and the
\* touch buffer applied when it is positive.
StateProj(shp, gdf, crs_key, touch_buffer_m) ==
    LET proj == [i \in DOMAIN gdf |->
                    StateRow(shp, gdf[i], ToCrs(gdf[i].geometry, shp.crs, crs_key))]
        kept == SelectSeq(proj, LAMBDA sr : sr.geometry.kind = "rect")
    IN  IF touch_buffer_m > 0
        THEN [i \in DOMAIN kept |->
                 [kept[i] EXCEPT !.geometry = Buffer(@, touch_buffer_m)]]
        ELSE kept

\* One pass of the loop over footprints_by_crs: the joined table of the
\* group, empty when the group adds no part.
JoinGroupRows(shp, gdf, group, touch_buffer_m, order) ==
    SJoin(StateProj(shp, gdf, group[1], touch_buffer_m), TileTable(group[2]), order)

\* The analytical resolver's join of the reprojected regions with the grid
JoinModisRows(shp, gdf, order) ==
    LET proj == [i \in DOMAIN gdf |->
                    StateRow(shp, gdf[i], ToCrs(gdf[i].geometry, shp.crs, MODIS_SINU_WKT))]
    IN  SJoin(proj, TileTable(IterModisTiles), order)

\* A joined part with the dtypes of its h and v columns
Part(rows, fps) ==
    [rows |-> rows,
     hd |-> ColumnDtype({ fps[i].h : i \in DOMAIN fps }),
     vd |-> ColumnDtype({ fps[i].v : i \in DOMAIN fps })]

\* The dtype of a column of pd.concat over the parts' dtypes
ConcatDtype(dtypes) ==
    IF "object" \in dtypes THEN "object"
    ELSE IF "float64" \in dtypes THEN "float64" ELSE "int64"

RECURSIVE ConcatRows(_, _, _)
ConcatRows(parts, hd, vd) ==
    IF parts = <<>> THEN <<>>
    ELSE LET p == Head(parts)
         IN  [i \in DOMAIN p.rows |->
                 [p.rows[i] EXCEPT !.h = InColumn(@, hd), !.v = InColumn(@, vd)]]
             \o ConcatRows(Tail(parts), hd, vd)

\* `joined`: the only part, or pd.concat(joined_parts, ignore_index=True)
Concat(parts) ==
    IF Len(parts) = 1 THEN parts[1].rows
    ELSE ConcatRows(parts,
                    ConcatDtype({ parts[i].hd : i \in DOMAIN parts }),
                    ConcatDtype({ parts[i].vd : i \in DOMAIN parts }))

\* _to_int_or_blank with int(text) in place of int(float(text))
ToIntOrBlankStrict(value) ==
    IF value.k = "int" THEN IntVal(value.n) ELSE Blank

\* _to_int_or_blank(value)
ToIntOrBlank(value) ==
    IF value.k \in {"int", "float"} THEN IntVal(value.n) ELSE Blank

\* The statefp field of an output row: str(row.get("STATEFP", "") or "").zfill(2)
StatefpField(row) == ZFill(OrEmpty(RowGet(row.STATEFP, <<>>)), 2)

\* The stusps field of an output row
StuspsField(row) == Upper(OrEmpty(RowGet(row.STUSPS, <<>>)))

\* The output record of one joined row
OutRow(script, row) ==
    [statefp |-> StatefpField(row),
     stusps |-> StuspsField(row),
     tile_id |-> IF script = "facts" THEN Lower(OrEmpty(row.tile_id)) ELSE OrEmpty(row.tile_id),
     h |-> IF script = "facts" THEN ToIntOrBlank(row.h) ELSE IntVal(row.h.n),
     v |-> IF script = "facts" THEN ToIntOrBlank(row.v) ELSE IntVal(row.v.n)]

\* key = (statefp or stusps, tile_id)
DedupKey(out) ==
    << IF out.statefp # <<>> THEN out.statefp ELSE out.stusps, out.tile_id >>

\* The loop over joined.iterrows(): rows in order, first of each key kept.
RECURSIVE DedupRows(_, _, _, _)
DedupRows(script, joined, seen, rows) ==
    IF joined = <<>> THEN rows
    ELSE LET out == OutRow(script, Head(joined))
             key == DedupKey(out)
         IN  IF out.tile_id = <<>> \/ key \in seen
             THEN DedupRows(script, Tail(joined), seen, rows)
             ELSE DedupRows(script, Tail(joined), seen \cup {key}, Append(rows, out))

\* A sort key of statefp alone
KeyLessStatefpOnly(a, b) == StrLess(a.statefp, b.statefp)

\* The sort key (r["statefp"], r["tile_id"]) compared as tuples of strings
KeyLess(a, b) ==
    \/ StrLess(a.statefp, b.statefp)
    \/ a.statefp = b.statefp /\ StrLess(a.tile_id, b.tile_id)

\* The rows left in the order of the loop
SortRowsNone(rows) == rows

\* rows.sort(key=...): a stable sort
RECURSIVE InsertRow(_, _)
RECURSIVE SortRows(_)

InsertRow(sorted, r) ==
    IF sorted = <<>> THEN << r >>
    ELSE IF KeyLess(r, sorted[Len(sorted)])
    THEN Append(InsertRow(SubSeq(sorted, 1, Len(sorted) - 1), r), sorted[Len(sorted)])
    ELSE Append(sorted, r)

SortRows(rows) ==
    IF rows = <<>> THEN <<>>
    ELSE InsertRow(SortRows(SubSeq(rows, 1, Len(rows) - 1)), rows[Len(rows)])

\* The rows written to output_csv for a joined table
OutputRows(script, joined) == SortRows(DedupRows(script, joined, {}, <<>>))

\* ------------------------------------------------------------ the program

VARIABLES
    input,          \* the run's arguments: script, states_csv, raster_facts, shapefile, touch_buffer_m
    pc,             \* the stage the run is at: codes, facts, load, select, join, emit, done, failed
    error,          \* the message of the exception that ended the run, "" for none
    idx,            \* the position of the loop the run is in
    fips_interest,  \* the requested FIPS codes read so far
    abbr_interest,  \* the requested abbreviations read so far
    by_tile,        \* the footprints kept so far, in insertion order
    gdf,            \* the selected regions
    groups,         \* footprints_by_crs
    joined_parts,   \* the non-empty joined tables of the groups processed
    output,         \* output_csv: whether it was written, and its data rows
    tile_ids,       \* polygon extraction: `tiles`, the tile ids read from the tiles csv
    feature_count,  \* the features written so far
    tile_ok,        \* the tiles extracted so far
    tile_missing,   \* the tiles found without a field raster so far
    tile_errors,    \* the tiles whose extraction failed so far
    errors,         \* the error list of the summary
    ndjson,         \* output_ndjson: whether it was opened, and its lines
    summary         \* summary_json: whether it was written, and its content

\* The variables of the polygon extraction and those of the resolvers
extraction ==
    << tile_ids, feature_count, tile_ok, tile_missing, tile_errors, errors, ndjson, summary >>
resolution == << fips_interest, abbr_interest, by_tile, gdf, groups, joined_parts, output >>

vars ==
    << input, pc, error, idx, fips_interest, abbr_interest, by_tile, gdf, groups,
       joined_parts, output, extraction >>

\* The permutations of a finite set, as sequences
Perms(S) ==
    { f \in [1..Cardinality(S) -> S] : \A i, j \in 1..Cardinality(S) : f[i] = f[j] => i = j }

\* The orders in which a join may list the tiles of one left row: every
\* order of the tiles that some left row intersects.
JoinOrders(left, tiles) ==
    Perms({ t \in DOMAIN tiles : \E i \in DOMAIN left : Intersects(left[i].geometry, tiles[t].geometry) })

Fail(msg) ==
    /\ pc' = "failed"
    /\ error' = msg

\* for row in rdr (both readers of the codes file)
ReadCodesRow ==
    LET file == input.states_csv
        hdr  == HasHeader(input.script, file)
        add  == IF hdr /\ idx = 1 THEN << {}, {} >>
                ELSE CodesOfRow(input.script, hdr, IF hdr THEN file.rows[1] ELSE <<>>, file.rows[idx])
    IN  /\ pc = "codes"
        /\ idx <= Len(file.rows)
        /\ ~(input.script = "analytical" /\ NoFieldnames(file.rows))
        /\ fips_interest' = fips_interest \cup add[1]
        /\ abbr_interest' = abbr_interest \cup add[2]
        /\ idx' = idx + 1
        /\ UNCHANGED << extraction, input, pc, error, by_tile, gdf, groups, joined_parts, output >>

\* The end of _read_state_codes without its check of the two sets
FinishCodesNoCheck ==
    /\ pc = "codes"
    /\ idx > Len(input.states_csv.rows)
    /\ pc' = IF input.script = "facts" THEN "facts" ELSE "load"
    /\ idx' = 1
    /\ UNCHANGED << extraction, input, error, fips_interest, abbr_interest, by_tile, gdf, groups,
                    joined_parts, output >>

\* The end of _read_state_codes: its error checks and its return
FinishCodes ==
    LET file == input.states_csv
        nohd == input.script = "analytical" /\ NoFieldnames(file.rows)
    IN  /\ pc = "codes"
        /\ IF nohd THEN TRUE ELSE idx > Len(file.rows)
        /\ IF nohd THEN Fail("states csv has no header")
           ELSE IF fips_interest = {} /\ abbr_interest = {}
           THEN Fail("states csv did not yield any state codes")
           ELSE /\ pc' = IF input.script = "facts" THEN "facts" ELSE "load"
                /\ error' = error
        /\ idx' = 1
        /\ UNCHANGED << extraction, input, fips_interest, abbr_interest, by_tile, gdf, groups,
                        joined_parts, output >>

\* for row in rdr (_read_raster_footprints_from_facts)
ReadFactsRow ==
    LET file == input.raster_facts
    IN  /\ pc = "facts"
        /\ file.header
        /\ idx <= Len(file.rows)
        /\ by_tile' = FactsStep(by_tile, file.rows[idx])
        /\ idx' = idx + 1
        /\ UNCHANGED << extraction, input, pc, error, fips_interest, abbr_interest, gdf, groups,
                        joined_parts, output >>

\* The end of _read_raster_footprints_from_facts
FinishFacts ==
    LET file == input.raster_facts
    IN  /\ pc = "facts"
        /\ IF file.header THEN idx > Len(file.rows) ELSE TRUE
        /\ IF ~file.header THEN Fail("raster_facts csv has no header")
           ELSE IF by_tile = <<>> THEN Fail("no usable raster footprints")
           ELSE /\ pc' = "load"
                /\ error' = error
        /\ idx' = 1
        /\ UNCHANGED << extraction, input, fips_interest, abbr_interest, by_tile, gdf, groups,
                        joined_parts, output >>

\* gpd.read_file and the checks on what it loaded
LoadBoundary ==
    /\ pc = "load"
    /\ IF LoadError(input.shapefile) # "" THEN Fail(LoadError(input.shapefile))
       ELSE /\ pc' = "select"
            /\ error' = error
    /\ UNCHANGED << extraction, input, idx, fips_interest, abbr_interest, by_tile, gdf, groups,
                    joined_parts, output >>

\* Region selection, and the grouping of the footprints by CRS
SelectRegions ==
    LET err == SelectError(input.script, input.shapefile, fips_interest, abbr_interest)
    IN  /\ pc = "select"
        /\ IF err # "" THEN Fail(err) /\ UNCHANGED << gdf, groups >>
           ELSE /\ pc' = "join"
                /\ error' = error
                /\ gdf' = Selected(input.shapefile, fips_interest, abbr_interest)
                /\ groups' = IF input.script = "facts" THEN GroupByCrs(<<>>, by_tile) ELSE <<>>
        /\ idx' = 1
        /\ UNCHANGED << extraction, input, fips_interest, abbr_interest, by_tile, joined_parts, output >>

\* A pass of the loop that buffers the selected regions themselves
JoinGroupInPlace ==
    LET grown == [i \in DOMAIN gdf |->
                     [gdf[i] EXCEPT !.geometry = IF input.touch_buffer_m > 0
                                                 THEN Buffer(@, input.touch_buffer_m) ELSE @]]
        rows  == JoinGroupRows(input.shapefile, grown, groups[idx], 0,
                               [i \in DOMAIN groups[idx][2] |-> i])
    IN  /\ pc = "join"
        /\ input.script = "facts"
        /\ idx <= Len(groups)
        /\ gdf' = grown
        /\ joined_parts' = IF rows # <<>>
                            THEN Append(joined_parts, Part(rows, groups[idx][2]))
                            ELSE joined_parts
        /\ idx' = idx + 1
        /\ pc' = IF idx = Len(groups) THEN "emit" ELSE "join"
        /\ UNCHANGED << extraction, input, error, fips_interest, abbr_interest, by_tile, groups, output >>

\* A pass of the loop that keeps its own part in place of the parts before it
JoinGroupKeepsLast ==
    /\ pc = "join"
    /\ input.script = "facts"
    /\ idx <= Len(groups)
    /\ LET rows == JoinGroupRows(input.shapefile, gdf, groups[idx], input.touch_buffer_m,
                                 [i \in DOMAIN groups[idx][2] |-> i])
       IN  joined_parts' = IF rows # <<>> THEN << Part(rows, groups[idx][2]) >> ELSE <<>>
    /\ idx' = idx + 1
    /\ pc' = IF idx = Len(groups) THEN "emit" ELSE "join"
    /\ UNCHANGED << extraction, input, error, fips_interest, abbr_interest, by_tile, gdf, groups, output >>

\* One pass of `for crs_key, fps in footprints_by_crs.items()`
JoinGroup ==
    /\ pc = "join"
    /\ input.script = "facts"
    /\ idx <= Len(groups)
    /\ \E order \in JoinOrders(StateProj(input.shapefile, gdf, groups[idx][1], input.touch_buffer_m),
                                TileTable(groups[idx][2])) :
          LET rows == JoinGroupRows(input.shapefile, gdf, groups[idx], input.touch_buffer_m, order)
          IN  joined_parts' = IF rows # <<>>
                              THEN Append(joined_parts, Part(rows, groups[idx][2]))
                              ELSE joined_parts
    /\ idx' = idx + 1
    /\ pc' = IF idx = Len(groups) THEN "emit" ELSE "join"
    /\ UNCHANGED << extraction, input, error, fips_interest, abbr_interest, by_tile, gdf, groups, output >>

\* The analytical resolver's reprojection and join with the grid
JoinModis ==
    LET proj == [i \in DOMAIN gdf |->
                    StateRow(input.shapefile, gdf[i],
                             ToCrs(gdf[i].geometry, input.shapefile.crs, MODIS_SINU_WKT))]
    IN  /\ pc = "join"
        /\ input.script = "analytical"
        /\ \E order \in JoinOrders(proj, TileTable(IterModisTiles)) :
              LET rows == JoinModisRows(input.shapefile, gdf, order)
              IN  IF rows = <<>>
                  THEN Fail("no MODIS tiles intersect selected states") /\ UNCHANGED joined_parts
                  ELSE /\ pc' = "emit"
                       /\ error' = error
                       /\ joined_parts' = << Part(rows, IterModisTiles) >>
        /\ UNCHANGED << extraction, input, idx, fips_interest, abbr_interest, by_tile, gdf, groups, output >>

\* The union of the parts, the output rows and the writing of output_csv
Emit ==
    /\ pc = "emit"
    /\ IF joined_parts = <<>>
       THEN Fail("no raster_facts footprints intersect selected states") /\ UNCHANGED output
       ELSE /\ pc' = "done"
            /\ error' = error
            /\ output' = [written |-> TRUE,
                          rows |-> OutputRows(input.script, Concat(joined_parts))]
    /\ UNCHANGED << extraction, input, idx, fips_interest, abbr_interest, by_tile, gdf, groups,
                    joined_parts >>

Next ==
    \/ ReadCodesRow
    \/ FinishCodes
    \/ ReadFactsRow
    \/ FinishFacts
    \/ LoadBoundary
    \/ SelectRegions
    \/ JoinGroup
    \/ JoinModis
    \/ Emit

\* The state of a run on `in` before its first statement
Start(in) ==
    /\ input = in
    /\ pc = "codes"
    /\ error = ""
    /\ idx = 1
    /\ fips_interest = {}
    /\ abbr_interest = {}
    /\ by_tile = <<>>
    /\ gdf = <<>>
    /\ groups = <<>>
    /\ joined_parts = <<>>
    /\ output = [written |-> FALSE, rows |-> <<>>]
    /\ tile_ids = <<>>
    /\ feature_count = 0
    /\ tile_ok = 0
    /\ tile_missing = 0
    /\ tile_errors = 0
    /\ errors = <<>>
    /\ ndjson = [opened |-> FALSE, lines |-> <<>>]
    /\ summary = [written |-> FALSE]

\* ------------------------------------------------------------- the inputs

\* Bounds of the inputs
MaxRegions == 2
MaxFactsRows == 2
MaxRichRows == 3
MaxTokLen == 3

\* The sequences over S of length at most n, and those without repetition
SeqsUpTo(S, n) == UNION { [1..k -> S] : k \in 0..n }
DistinctSeqsUpTo(S, n) ==
    { q \in SeqsUpTo(S, n) : \A i, j \in DOMAIN q : q[i] = q[j] => i = j }

\* Codes files.  `sniff` is csv.Sniffer's verdict on the file.
CodesToken06 == [sniff |-> FALSE, rows |-> << << << "0", "6" >> >> >>]
CodesToken41 == [sniff |-> FALSE, rows |-> << << << "4", "1" >> >> >>]
CodesTokensMixed == [sniff |-> FALSE, rows |-> << << << "0", "6" >>, << "o", "r" >> >> >>]
CodesHeaderFips ==
    [sniff |-> TRUE, rows |-> << << << "S", "T", "A", "T", "E", "F", "P" >> >>, << << "6" >> >>, << << "4" >> >> >>]
CodesHeaderAbbr ==
    [sniff |-> TRUE, rows |-> << << << "S", "t", "a", "t", "e" >> >>, << << "c", "a" >> >>, << << "A", "Z" >> >> >>]

CodesFiles ==
    { CodesToken06, CodesToken41, CodesTokensMixed, CodesHeaderFips, CodesHeaderAbbr }

\* Regions of the boundary source, in the coordinates of CRS "A"
RegionCA == [STATEFP |-> << "0", "6" >>, STUSPS |-> << "C", "A" >>, geometry |-> Rect(1, 1, 3, 3)]
RegionAZ == [STATEFP |-> << "4" >>, STUSPS |-> << "a", "z" >>, geometry |-> Rect(5, 1, 8, 3)]
RegionOR == [STATEFP |-> None, STUSPS |-> << "O", "R" >>, geometry |-> Rect(15, 1, 16, 3)]

Regions == { RegionCA, RegionAZ, RegionOR }

Shapefile(fp, st, crs, regions) ==
    [has_statefp |-> fp, has_stusps |-> st, crs |-> crs, regions |-> regions]

\* Rows of the raster-facts table: three tiles (two in CRS "A", one in
\* CRS "B"), and a row for the first tile with inverted bounds.
FactsRow(path, bounds, crs) == [relative_path |-> path, bounds |-> bounds, crs |-> crs]

RowT1 == FactsRow(<< "a", "/", "h", "0", "8", "v", "0", "5", ".", "t", "i", "f" >>, << "0", ",", "0", ",", "2", ",", "2" >>, << "A" >>)
RowT2 == FactsRow(<< "H", "0", "9", "V", "0", "5", "_", "b", "1" >>, << "2", ",", " ", "0", ",", " ", "4", ",", " ", "2" >>, << " ", "A" >>)
RowT3 == FactsRow(<< "h", "1", "0", "v", "0", "5" >>, << "1", "4", ".", "5", ",", "0", ",", "1", "6", ".", "5", ",", "2" >>, << "B" >>)
RowInverted == FactsRow(<< "h", "0", "8", "v", "0", "5", "_", "b", "0" >>, << "2", ",", "0", ",", "0", ",", "2" >>, << "A" >>)

MainFactsRows == { RowT1, RowT2, RowT3 }

FactsFile(rows) == [header |-> TRUE, rows |-> rows]
EmptyFactsFile == [header |-> FALSE, rows |-> <<>>]

\* Touch buffers, in half units: 0.0 and the default 1.0
TouchBuffers == { 0, 2 }

Run(script, codes, facts, shp, touch) ==
    [script |-> script, states_csv |-> codes, raster_facts |-> facts,
     shapefile |-> shp, touch_buffer_m |-> touch]

\* The column layouts of a boundary source with a code column
ColumnLayouts == { << TRUE, TRUE >>, << TRUE, FALSE >>, << FALSE, TRUE >> }

\* The main family: every combination of codes file, column layout,
\* region list and facts table, with the default touch buffer.
CoreInputs ==
    { Run("facts", c, FactsFile(f), Shapefile(cols[1], cols[2], CrsA, r), 2) :
        c \in CodesFiles,
        f \in DistinctSeqsUpTo(MainFactsRows, MaxFactsRows),
        cols \in ColumnLayouts,
        r \in DistinctSeqsUpTo(Regions, MaxRegions) }

\* The tolerance family: inputs of the main family under every touch buffer
ToleranceInputs ==
    { Run("facts", CodesTokensMixed, FactsFile(f), Shapefile(cols[1], cols[2], CrsA, r), t) :
        f \in DistinctSeqsUpTo(MainFactsRows, MaxFactsRows),
        cols \in ColumnLayouts,
        r \in DistinctSeqsUpTo(Regions, MaxRegions),
        t \in TouchBuffers }

AnalyticalInputs ==
    { Run("analytical", c, EmptyFactsFile, Shapefile(cols[1], cols[2], CrsA, r), 0) :
        c \in CodesFiles,
        cols \in ColumnLayouts,
        r \in DistinctSeqsUpTo(Regions, MaxRegions) }

\* Sources without code columns or without a CRS, and an empty facts file
EdgeInputs ==
    { Run(s, CodesHeaderFips, f, shp, 2) :
        s \in { "facts", "analytical" },
        f \in { FactsFile(<< RowT1 >>), EmptyFactsFile },
        shp \in { Shapefile(FALSE, FALSE, CrsA, << RegionCA, RegionAZ >>),
                  Shapefile(TRUE, TRUE, None, << RegionCA, RegionAZ >>) } }

\* Sources with a region whose geometry is missing or empty
RegionAZNull == [RegionAZ EXCEPT !.geometry = NoGeom]
RegionCAEmpty == [RegionCA EXCEPT !.geometry = EmptyGeom]

\* A tile of CRS "B" one and a half units away from the first region
RowT4 == FactsRow(<< "h", "1", "1", "v", "0", "5" >>, << "1", "3", ",", "0", ",", "1", "5", ",", "2" >>, << "B" >>)

GeometryInputs ==
    { Run("facts", CodesHeaderFips, FactsFile(f), Shapefile(TRUE, TRUE, CrsA, r), 2) :
        f \in { << RowT1 >>, << RowT1, RowT3 >>, << RowT3, RowT2 >>, << RowT1, RowT4 >> },
        r \in { << RegionCA, RegionAZNull >>, << RegionCAEmpty, RegionAZ >>,
                << RegionCAEmpty, RegionAZNull >> } }

\* The facts family: tables over a wider set of rows (a second band of the
\* first tile with other bounds and CRS, rows the reader skips, a file
\* name without a tile token), resolved against one boundary source.
RowT1Band2 == FactsRow(<< "b", "/", "H", "0", "8", "V", "0", "5", "_", "b", "2", ".", "t", "i", "f" >>, << "0", ",", "0", ",", "3", ",", "3" >>, << "B" >>)
RowNoCrs == FactsRow(<< "h", "0", "9", "v", "0", "5" >>, << "2", ",", "0", ",", "4", ",", "2" >>, << " " >>)
RowNoPath == FactsRow(None, << "0", ",", "0", ",", "2", ",", "2" >>, << "A" >>)
RowThreeParts == FactsRow(<< "h", "0", "9", "v", "0", "5" >>, << "2", ",", "0", ",", "4" >>, << "A" >>)
RowNan == FactsRow(<< "h", "0", "9", "v", "0", "5" >>, << "2", ",", "0", ",", "n", "a", "n", ",", "2" >>, << "A" >>)
RowFoo == FactsRow(<< "x", "/", "F", "o", "o", ".", "T", "I", "F" >>, << "0", ",", "0", ",", "2", ",", "2" >>, << "A" >>)
RowBlankStem == FactsRow(<< "a", "/", " ", ".", "t", "i", "f" >>, << "0", ",", "0", ",", "2", ",", "2" >>, << "A" >>)

RichFactsRows ==
    { RowT1, RowT1Band2, RowT2, RowInverted, RowFoo, RowBlankStem }

\* Rows the reader skips for want of a path, of four finite bounds or of a crs
SkippedRows == { RowNoPath, RowThreeParts, RowNan, RowNoCrs }

FactsInputs ==
    { Run("facts", CodesHeaderFips, FactsFile(f),
          Shapefile(TRUE, TRUE, CrsA, << RegionCA, RegionAZ >>), 2) :
        f \in DistinctSeqsUpTo(RichFactsRows, MaxRichRows)
              \cup { << s >> : s \in SkippedRows }
              \cup { << s, RowT1 >> : s \in SkippedRows }
              \cup { << RowT2, s >> : s \in SkippedRows } }

\* The codes family: every cell over a small alphabet, as the token of a
\* headerless file or under a FIPS-like, an abbreviation-like or an
\* unmatched column of a headered one, read by both readers.
CodeAlphabet == { "0", "6", "c", " ", "-" }

CodeColumns == { << " ", "F", "i", "p", "s" >>, << "S", "T", "_", "U", "S", "P", "S" >>, << "i", "d" >> }

CodesInputs ==
    { Run(s, c, FactsFile(<< RowT1 >>),
          Shapefile(TRUE, TRUE, CrsA, << RegionCA, RegionAZ >>), 2) :
        s \in { "facts", "analytical" },
        c \in { [sniff |-> FALSE, rows |-> << << cell >> >>] :
                   cell \in SeqsUpTo(CodeAlphabet, MaxTokLen) }
              \cup { [sniff |-> TRUE, rows |-> << << col >>, << cell >> >>] :
                        col \in CodeColumns, cell \in SeqsUpTo(CodeAlphabet, MaxTokLen) } }

\* Runs of the facts-derived script in which several stages have a reason
\* to fail: a codes file without a code, a facts table without a header or
\* without a usable row, and boundary sources without features, without
\* code columns, without a CRS or without the requested region
CodesTokenNone == [sniff |-> FALSE, rows |-> << << << "-" >> >> >>]

OrderInputs ==
    { Run("facts", c, f, shp, 2) :
        c \in { CodesTokenNone, CodesToken06, CodesToken41 },
        f \in { EmptyFactsFile, FactsFile(<< RowInverted >>), FactsFile(<< RowT1 >>),
                FactsFile(<< RowT3 >>) },
        shp \in { Shapefile(FALSE, FALSE, None, <<>>),
                  Shapefile(TRUE, TRUE, None, <<>>),
                  Shapefile(FALSE, FALSE, None, << RegionCA >>),
                  Shapefile(TRUE, TRUE, None, << RegionAZ >>),
                  Shapefile(TRUE, TRUE, None, << RegionCA >>),
                  Shapefile(TRUE, TRUE, CrsA, << RegionCA >>) } }

Inputs ==
    CoreInputs \cup ToleranceInputs \cup AnalyticalInputs \cup EdgeInputs
        \cup GeometryInputs \cup FactsInputs \cup CodesInputs \cup OrderInputs

Init == \E in \in Inputs : Start(in)

Spec == Init /\ [][Next]_vars

\* ------------------------------------------------------ polygon extraction
\* scripts/yanroy/build_field_polygons_ndjson.py, which reads the tiles csv
\* a resolver wrote and extracts the field polygons of each tile.

\* _read_tiles_of_interest(path): the tile_id cells of the rows, stripped
\* and lower-cased, without the empty ones and without repetitions
RECURSIVE OrderedTiles(_, _)
OrderedTiles(cells, ordered) ==
    IF cells = <<>> THEN ordered
    ELSE LET tile_id == Lower(Strip(OrEmpty(Head(cells))))
         IN  OrderedTiles(Tail(cells),
                          IF tile_id = <<>> \/ tile_id \in Range(ordered)
                          THEN ordered ELSE Append(ordered, tile_id))

TileIdColumn == << "t", "i", "l", "e", "_", "i", "d" >>

ReadTilesOfInterest(file) ==
    LET ordered == OrderedTiles(file.cells, <<>>)
    IN  IF ~file.exists THEN << "tiles csv not found", <<>> >>
        ELSE IF TileIdColumn \notin Range(file.fieldnames)
        THEN << "tiles.of.interest.csv must contain tile_id column", <<>> >>
        ELSE IF ordered = <<>>
        THEN << "no tile_id rows found in tiles.of.interest.csv", <<>> >>
        ELSE << "", ordered >>

\* sub in s, and s.endswith(sub)
Contains(s, sub) ==
    \E i \in 1..(Len(s) - Len(sub) + 1) : SubSeq(s, i, i + Len(sub) - 1) = sub
EndsWith(s, sub) ==
    Len(sub) <= Len(s) /\ SubSeq(s, Len(s) - Len(sub) + 1, Len(s)) = sub

\* Path(name).suffix
PathSuffix(name) ==
    LET dots == { i \in DOMAIN name : name[i] = "." }
        i    == IF dots = {} THEN 0 ELSE CHOOSE k \in dots : \A j \in dots : j <= k
    IN  IF 1 < i /\ i < Len(name) THEN SubSeq(name, i, Len(name)) ELSE <<>>

IGNORED_SUFFIXES ==
    { << ".", "h", "d", "r" >>, << ".", "t", "f", "w" >>, << ".", "p", "r", "j" >>,
      << ".", "a", "u", "x" >>, << ".", "x", "m", "l" >>, << ".", "o", "v", "r" >> }

\* The entries of a directory sorted by path
RECURSIVE InsertPath(_, _)
InsertPath(sorted, e) ==
    IF sorted = <<>> THEN << e >>
    ELSE IF StrLess(e.name, Head(sorted).name) THEN << e >> \o sorted
    ELSE << Head(sorted) >> \o InsertPath(Tail(sorted), e)

RECURSIVE SortedPaths(_)
SortedPaths(entries) ==
    IF entries = <<>> THEN <<>>
    ELSE InsertPath(SortedPaths(SubSeq(entries, 1, Len(entries) - 1)), entries[Len(entries)])

\* The test of one path in _candidate_rasters
IsCandidate(e) ==
    LET low == Lower(e.name)
    IN  /\ e.is_file
        /\ Contains(low, << "f", "i", "e", "l", "d", "_", "s", "e", "g", "m", "e", "n", "t", "s" >>)
        /\ ~EndsWith(low, << "_", "a", "n", "c", "i", "l", "l", "a", "r", "y", "_", "d", "a", "t", "a" >>)
        /\ Lower(PathSuffix(e.name)) \notin IGNORED_SUFFIXES

\* _candidate_rasters(tile_dir)
CandidateRasters(tile_dir) ==
    IF ~tile_dir.exists \/ ~tile_dir.is_dir THEN <<>>
    ELSE SelectSeq(SortedPaths(tile_dir.entries), IsCandidate)

\* fields_dir / tile_id
NoDir == [exists |-> FALSE, is_dir |-> FALSE, entries |-> <<>>]
TileDir(fields_dir, tile_id) ==
    IF tile_id \in DOMAIN fields_dir.dirs THEN fields_dir.dirs[tile_id] ELSE NoDir

\* str(n) of a natural number below 100
IntText(n) == IF n < 10 THEN << DigitChars[n + 1] >> ELSE TwoDigits(n)

\* One feature of a raster
Feature(tile_id, field_id) ==
    [primary_key |-> tile_id \o << "_" >> \o IntText(field_id),
     tile_id |-> tile_id, field_id |-> field_id]

\* _feature_rows_for_raster(tile_id, raster_path): the exception it raises
\* ("" for none) and the rows it returns. A raster holds the values of its
\* regions of equal value, in the order features.shapes lists them, and
\* its nodata value as a set (empty for None).
FeatureRowsForRaster(tile_id, e) ==
    LET valid(val) == val > 0 /\ val \notin e.nodata
        vals == SelectSeq(e.values, valid)
    IN  IF ~e.opens THEN << "not a raster", <<>> >>
        ELSE << "", [i \in DOMAIN vals |-> Feature(tile_id, vals[i])] >>

\* build_field_polygons_ndjson up to its loop: the checks of its
\* arguments, the reading of the tiles and the opening of the output
StartExtraction ==
    LET r == ReadTilesOfInterest(input.tiles_csv)
    IN  /\ pc = "start"
        /\ IF ~input.fields_dir.exists \/ ~input.fields_dir.is_dir
           THEN Fail("fields dir not found") /\ UNCHANGED << tile_ids, ndjson >>
           ELSE IF r[1] # ""
           THEN Fail(r[1]) /\ UNCHANGED << tile_ids, ndjson >>
           ELSE /\ pc' = "tiles"
                /\ error' = error
                /\ tile_ids' = r[2]
                /\ ndjson' = [opened |-> TRUE, lines |-> <<>>]
        /\ idx' = 1
        /\ feature_count' = 0
        /\ tile_ok' = 0
        /\ tile_missing' = 0
        /\ tile_errors' = 0
        /\ errors' = <<>>
        /\ UNCHANGED << input, resolution, summary >>

\* One pass of the loop over the tiles, in which a failed extraction ends the run
ProcessTileAborts ==
    LET tile_id    == tile_ids[idx]
        candidates == CandidateRasters(TileDir(input.fields_dir, tile_id))
        res        == FeatureRowsForRaster(tile_id, candidates[1])
    IN  /\ pc = "tiles"
        /\ idx <= Len(tile_ids)
        /\ IF candidates = <<>>
           THEN /\ tile_missing' = tile_missing + 1
                /\ idx' = idx + 1
                /\ UNCHANGED << pc, error, feature_count, tile_ok, tile_errors, errors, ndjson >>
           ELSE IF res[1] # ""
           THEN /\ Fail(res[1])
                /\ UNCHANGED << idx, feature_count, tile_ok, tile_missing, tile_errors, errors, ndjson >>
           ELSE /\ ndjson' = [ndjson EXCEPT !.lines = @ \o res[2]]
                /\ feature_count' = feature_count + Len(res[2])
                /\ tile_ok' = tile_ok + 1
                /\ idx' = idx + 1
                /\ UNCHANGED << pc, error, tile_missing, tile_errors, errors >>
        /\ UNCHANGED << input, resolution, tile_ids, summary >>

\* One pass of the loop over the tiles
ProcessTile ==
    LET tile_id    == tile_ids[idx]
        candidates == CandidateRasters(TileDir(input.fields_dir, tile_id))
        res        == FeatureRowsForRaster(tile_id, candidates[1])
    IN  /\ pc = "tiles"
        /\ idx <= Len(tile_ids)
        /\ IF candidates = <<>>
           THEN /\ tile_missing' = tile_missing + 1
                /\ UNCHANGED << feature_count, tile_ok, tile_errors, errors, ndjson >>
           ELSE IF res[1] # ""
           THEN /\ tile_errors' = tile_errors + 1
                /\ errors' = Append(errors, [tile_id |-> tile_id, error |-> res[1],
                                             raster |-> candidates[1].name])
                /\ UNCHANGED << feature_count, tile_ok, tile_missing, ndjson >>
           ELSE /\ ndjson' = [ndjson EXCEPT !.lines = @ \o res[2]]
                /\ feature_count' = feature_count + Len(res[2])
                /\ tile_ok' = tile_ok + 1
                /\ UNCHANGED << tile_missing, tile_errors, errors >>
        /\ idx' = idx + 1
        /\ UNCHANGED << input, pc, error, resolution, tile_ids, summary >>

\* The end of build_field_polygons_ndjson: the summary is written
WriteSummary ==
    /\ pc = "tiles"
    /\ idx > Len(tile_ids)
    /\ summary' = [written |-> TRUE,
                   tiles_requested |-> Len(tile_ids),
                   tiles_ok |-> tile_ok,
                   tiles_missing_raster |-> tile_missing,
                   tiles_failed |-> tile_errors,
                   feature_count |-> feature_count,
                   errors |-> errors]
    /\ pc' = "done"
    /\ UNCHANGED << input, error, idx, resolution, tile_ids, feature_count, tile_ok,
                    tile_missing, tile_errors, errors, ndjson >>

NextNdjson ==
    \/ StartExtraction
    \/ ProcessTile
    \/ WriteSummary

\* The state of a polygon extraction on `in` before its first statement
StartNdjson(in) ==
    /\ input = in
    /\ pc = "start"
    /\ error = ""
    /\ idx = 1
    /\ fips_interest = {}
    /\ abbr_interest = {}
    /\ by_tile = <<>>
    /\ gdf = <<>>
    /\ groups = <<>>
    /\ joined_parts = <<>>
    /\ output = [written |-> FALSE, rows |-> <<>>]
    /\ tile_ids = <<>>
    /\ feature_count = 0
    /\ tile_ok = 0
    /\ tile_missing = 0
    /\ tile_errors = 0
    /\ errors = <<>>
    /\ ndjson = [opened |-> FALSE, lines |-> <<>>]
    /\ summary = [written |-> FALSE]

\* The inputs of the polygon extraction
MaxTileRows == 3

TilesCsv(fieldnames, cells) == [exists |-> TRUE, fieldnames |-> fieldnames, cells |-> cells]
NoTilesCsv == [exists |-> FALSE, fieldnames |-> <<>>, cells |-> <<>>]

\* The tile_id cells of a tiles csv: three tiles, one of them also in
\* upper case with a blank, the empty cell and the missing cell
TileCells ==
    { << "h", "0", "8", "v", "0", "5" >>, << " ", "H", "0", "8", "V", "0", "5" >>,
      << "h", "0", "9", "v", "0", "5" >>, << "h", "1", "0", "v", "0", "5" >>, <<>>, None }

ResolverColumns == << << "S", "T", "A", "T", "E", "F", "P" >>, << "S", "T", "U", "S", "P", "S" >>, TileIdColumn >>

Entry(name, is_file, opens, nodata, values) ==
    [name |-> name, is_file |-> is_file, opens |-> opens, nodata |-> nodata, values |-> values]
Dir(entries) == [exists |-> TRUE, is_dir |-> TRUE, entries |-> entries]

\* Files of tile directories: readable field rasters, an unreadable one,
\* and files and folders that are no candidates
GoodRaster == Entry(<< "f", "i", "e", "l", "d", "_", "s", "e", "g", "m", "e", "n", "t", "s", ".", "t", "i", "f" >>, TRUE, TRUE, { 3 }, << 0, 1, 2, 3 >>)
OtherGoodRaster == Entry(<< "a", "_", "F", "I", "E", "L", "D", "_", "S", "E", "G", "M", "E", "N", "T", "S" >>, TRUE, TRUE, {}, << 7 >>)
BlankRaster == Entry(<< "f", "i", "e", "l", "d", "_", "s", "e", "g", "m", "e", "n", "t", "s", ".", "t", "i", "f" >>, TRUE, TRUE, {}, << 0 >>)
BadRaster == Entry(<< "z", "_", "f", "i", "e", "l", "d", "_", "s", "e", "g", "m", "e", "n", "t", "s", ".", "b", "i", "n" >>, TRUE, FALSE, {}, <<>>)
Sidecar == Entry(<< "f", "i", "e", "l", "d", "_", "s", "e", "g", "m", "e", "n", "t", "s", ".", "h", "d", "r" >>, TRUE, TRUE, {}, <<>>)
Ancillary == Entry(<< "f", "i", "e", "l", "d", "_", "s", "e", "g", "m", "e", "n", "t", "s", "_", "a", "n", "c", "i", "l", "l", "a", "r", "y", "_", "d", "a", "t", "a" >>, TRUE, TRUE, {}, <<>>)
Readme == Entry(<< "r", "e", "a", "d", "m", "e", ".", "t", "x", "t" >>, TRUE, TRUE, {}, <<>>)
Folder == Entry(<< "f", "i", "e", "l", "d", "_", "s", "e", "g", "m", "e", "n", "t", "s" >>, FALSE, FALSE, {}, <<>>)

FieldsDir(dirs) == [exists |-> TRUE, is_dir |-> TRUE, dirs |-> dirs]
NoFieldsDir == [exists |-> FALSE, is_dir |-> FALSE, dirs |-> <<>>]

FieldsDirs ==
    { FieldsDir((<< "h", "0", "8", "v", "0", "5" >> :> Dir(<< Sidecar, GoodRaster >>))
                @@ (<< "h", "0", "9", "v", "0", "5" >> :> Dir(<< BadRaster >>))
                @@ (<< "h", "1", "0", "v", "0", "5" >> :> Dir(<< Ancillary, Readme, Folder, Sidecar >>))),
      FieldsDir((<< "h", "0", "8", "v", "0", "5" >> :> Dir(<< BadRaster, GoodRaster >>))
                @@ (<< "h", "0", "9", "v", "0", "5" >> :> Dir(<< BadRaster, OtherGoodRaster >>))
                @@ (<< "h", "1", "0", "v", "0", "5" >> :> Dir(<< BlankRaster >>))),
      FieldsDir((<< "h", "0", "8", "v", "0", "5" >> :> Dir(<< BadRaster, Sidecar >>))
                @@ (<< "h", "0", "9", "v", "0", "5" >> :> Dir(<< GoodRaster >>))
                @@ (<< "h", "1", "0", "v", "0", "5" >> :> [exists |-> TRUE, is_dir |-> FALSE, entries |-> <<>>])),
      FieldsDir((<< "h", "0", "9", "v", "0", "5" >> :> Dir(<<>>))) }

RunNdjson(tiles_csv, fields_dir) ==
    [script |-> "ndjson", tiles_csv |-> tiles_csv, fields_dir |-> fields_dir]

NdjsonInputs ==
    { RunNdjson(TilesCsv(ResolverColumns, c), d) :
        c \in SeqsUpTo(TileCells, MaxTileRows), d \in FieldsDirs }
    \cup { RunNdjson(t, d) :
             t \in { NoTilesCsv, TilesCsv(<<>>, <<>>),
                     TilesCsv(<< << "S", "T", "A", "T", "E", "F", "P" >> >>, << << "h", "0", "8", "v", "0", "5" >> >>) },
             d \in FieldsDirs }
    \cup { RunNdjson(TilesCsv(ResolverColumns, << << "h", "0", "8", "v", "0", "5" >> >>), NoFieldsDir) }

InitNdjson == \E in \in NdjsonInputs : StartNdjson(in)

SpecNdjson == InitNdjson /\ [][NextNdjson]_vars

\* ----------------------------------------------------- the run as a whole

\* The tile positions in table order
TableOrder(tiles) == [i \in DOMAIN tiles |-> i]

\* The loop over footprints_by_crs with every join listing tiles in table
\* order: joined_parts.
RECURSIVE JoinAll(_, _, _, _, _)
JoinAll(shp, sel, grps, touch_buffer_m, parts) ==
    IF grps = <<>> THEN parts
    ELSE LET g    == Head(grps)
             rows == JoinGroupRows(shp, sel, g, touch_buffer_m, TableOrder(g[2]))
         IN  JoinAll(shp, sel, Tail(grps), touch_buffer_m,
                     IF rows # <<>> THEN Append(parts, Part(rows, g[2])) ELSE parts)

Outcome(err, rows) == [error |-> err, written |-> err = "", rows |-> rows]

\* build_tiles_of_interest(...) of either script on the arguments `in`:
\* the error it ends with ("" for none) and the rows it writes.
BuildTilesOfInterest(in) ==
    LET codes == ReadStateCodes(in.script, in.states_csv)
        facts == IF in.script = "facts" THEN ReadRasterFootprints(in.raster_facts)
                 ELSE << "", <<>> >>
        shp   == in.shapefile
        sel   == Selected(shp, codes[2], codes[3])
        parts == IF in.script = "facts"
                 THEN JoinAll(shp, sel, GroupByCrs(<<>>, facts[2]), in.touch_buffer_m, <<>>)
                 ELSE LET rows == JoinModisRows(shp, sel, TableOrder(IterModisTiles))
                      IN  IF rows # <<>> THEN << Part(rows, IterModisTiles) >> ELSE <<>>
    IN  IF codes[1] # "" THEN Outcome(codes[1], <<>>)
        ELSE IF facts[1] # "" THEN Outcome(facts[1], <<>>)
        ELSE IF LoadError(shp) # "" THEN Outcome(LoadError(shp), <<>>)
        ELSE IF SelectError(in.script, shp, codes[2], codes[3]) # ""
        THEN Outcome(SelectError(in.script, shp, codes[2], codes[3]), <<>>)
        ELSE IF parts = <<>>
        THEN Outcome(IF in.script = "facts"
                     THEN "no raster_facts footprints intersect selected states"
                     ELSE "no MODIS tiles intersect selected states", <<>>)
        ELSE Outcome("", OutputRows(in.script, Concat(parts)))

\* The run has ended
Terminated == pc \in { "done", "failed" }

\* What the run ended with
RunOutcome == [error |-> error, written |-> output.written, rows |-> output.rows]

\* ------------------------------------------------------------ properties

CodesErrors ==
    { "states csv has no header", "states csv did not yield any state codes" }
FactsErrors ==
    { "raster_facts csv has no header", "no usable raster footprints" }
LoadErrors ==
    { "state shapefile has no features",
      "state shapefile missing STATEFP and STUSPS columns" }
NoMatchErrors ==
    { "requested states not found in state shapefile",
      "no matching state columns found for provided codes",
      "no states matched states.of.interest.csv" }
NoIntersectionErrors ==
    { "no raster_facts footprints intersect selected states",
      "no MODIS tiles intersect selected states" }

\* _read_state_codes has returned its two sets
CodesAccepted == pc # "codes" /\ error \notin CodesErrors

AllUpper(s) == \A i \in DOMAIN s : IsUpper(s[i])

\* C1 as stated: every returned FIPS code is exactly two digits and every
\* returned abbreviation exactly two uppercase letters, in both readers.
C1_AsStated ==
    CodesAccepted =>
        /\ \A f \in fips_interest : Len(f) = 2 /\ AllDigits(f)
        /\ \A a \in abbr_interest : Len(a) = 2 /\ AllUpper(a)

\* C1 (amended): every FIPS code that _read_state_codes returns is all digits
\* and at least two characters long, exactly two when the file is read
\* without a header; every abbreviation it returns is uppercase letters only,
\* exactly two of them in the facts-derived reader and one or more in the
\* analytical reader.
C1_CodesNormalized ==
    CodesAccepted =>
        /\ \A f \in fips_interest :
              /\ Len(f) >= 2 /\ AllDigits(f)
              /\ ~HasHeader(input.script, input.states_csv) => Len(f) = 2
        /\ \A a \in abbr_interest :
              /\ Len(a) >= 1 /\ AllUpper(a)
              /\ input.script = "facts" => Len(a) = 2

\* A headered file was accepted with a FIPS code of three digits.
C1_Witness ==
    /\ CodesAccepted
    /\ HasHeader(input.script, input.states_csv)
    /\ \E f \in fips_interest : Len(f) = 3

\* The inputs of the end-to-end example: the codes file holds the token 06,
\* the boundary source holds the one region (06, CA) with a CRS, and the
\* facts table has exactly one usable row, whose path yields h08v05 and
\* whose box intersects the region.
C2_Scenario ==
    LET shp  == input.shapefile
        rows == input.raster_facts.rows
        use  == { i \in DOMAIN rows : RowUsable(rows[i]) }
    IN  /\ input.script = "facts"
        /\ input.states_csv = CodesToken06
        /\ shp.has_statefp /\ shp.has_stusps /\ shp.crs # None
        /\ Len(shp.regions) = 1
        /\ shp.regions[1].STATEFP = << "0", "6" >> /\ shp.regions[1].STUSPS = << "C", "A" >>
        /\ input.raster_facts.header
        /\ Cardinality(use) = 1
        /\ \A i \in use :
              /\ NormalizeTileId(rows[i].relative_path) = << "h", "0", "8", "v", "0", "5" >>
              /\ Intersects(ToCrs(shp.regions[1].geometry, shp.crs, FootprintOf(rows[i]).crs),
                            Box(FootprintOf(rows[i])))

\* C2: on the inputs of the end-to-end example the run never fails, and
\* when it is done the output holds exactly the row 06,CA,h08v05,8,5.
C2_EndToEnd ==
    C2_Scenario =>
        /\ pc # "failed" /\ error = ""
        /\ ~output.written => output.rows = <<>>
        /\ pc = "done" =>
              /\ output.written
              /\ output.rows =
                    << [statefp |-> << "0", "6" >>, stusps |-> << "C", "A" >>, tile_id |-> << "h", "0", "8", "v", "0", "5" >>,
                        h |-> IntVal(8), v |-> IntVal(5)] >>

C2_Witness == C2_Scenario /\ pc = "done"

\* The run got as far as region selection
ReachedSelection ==
    /\ pc \notin { "codes", "facts", "load" }
    /\ error \notin CodesErrors \cup FactsErrors \cup LoadErrors

\* A requested code corresponds to region r of the boundary source
Corresponds(r) ==
    \/ input.shapefile.has_statefp /\ ZFill(StrOf(r.STATEFP), 2) \in fips_interest
    \/ input.shapefile.has_stusps /\ Upper(StrOf(r.STUSPS)) \in abbr_interest

NoCodeCorresponds ==
    \A i \in DOMAIN input.shapefile.regions : ~Corresponds(input.shapefile.regions[i])

\* C3: a run (of either script) that reaches region selection with no
\* requested code corresponding to any region ends in a NoMatch failure
\* and never writes the output; and the output is written only by a run
\* that is done with no error.
C3_NoMatchWritesNothing ==
    /\ (ReachedSelection /\ NoCodeCorresponds /\ pc # "select") =>
          pc = "failed" /\ error \in NoMatchErrors /\ ~output.written
    /\ output.written => pc = "done" /\ error = ""
    /\ pc = "failed" <=> error # ""

\* A run of the analytical resolver failed for want of a matching region.
C3_Witness ==
    /\ input.script = "analytical"
    /\ ReachedSelection /\ NoCodeCorresponds
    /\ pc = "failed" /\ error = "no states matched states.of.interest.csv"

\* The squared distance between selected region r, reprojected into the
\* CRS of footprint fp, and the box of fp
Gap2(r, fp) ==
    LET g == ToCrs(r.geometry, input.shapefile.crs, fp.crs)
    IN  GapX(g, Box(fp)) * GapX(g, Box(fp)) + GapY(g, Box(fp)) * GapY(g, Box(fp))

HasRowFor(tile_id) == \E k \in DOMAIN output.rows : output.rows[k].tile_id = tile_id

\* The facts-derived run has finished its loop over the CRS groups
JoinsDone ==
    /\ input.script = "facts"
    /\ pc = "done" \/ (pc = "failed" /\ error \in NoIntersectionErrors)

\* C4: in a finished facts-derived run, a tile at a gap d, 0 < d <= tolerance,
\* from a selected region has a row when the tolerance is positive; and with
\* tolerance 0 a tile at a positive gap from every selected region has none.
C4_ToleranceMatch ==
    JoinsDone =>
        \A i \in DOMAIN by_tile :
            /\ (/\ input.touch_buffer_m > 0
                /\ \E j \in DOMAIN gdf :
                      /\ gdf[j].geometry.kind = "rect"
                      /\ 0 < Gap2(gdf[j], by_tile[i])
                      /\ Gap2(gdf[j], by_tile[i]) <= input.touch_buffer_m * input.touch_buffer_m)
               => pc = "done" /\ HasRowFor(by_tile[i].tile_id)
            /\ (/\ input.touch_buffer_m = 0
                /\ \A j \in DOMAIN gdf :
                      gdf[j].geometry.kind = "rect" => 0 < Gap2(gdf[j], by_tile[i]))
               => ~HasRowFor(by_tile[i].tile_id)

\* With tolerance 1.0 a tile half a unit away from a selected region has a row.
C4_Witness ==
    /\ JoinsDone /\ pc = "done"
    /\ input.touch_buffer_m = 2
    /\ \E i \in DOMAIN by_tile : \E j \in DOMAIN gdf :
          /\ Gap2(gdf[j], by_tile[i]) = 1
          /\ \A k \in DOMAIN gdf : Gap2(gdf[k], by_tile[i]) > 0
          /\ HasRowFor(by_tile[i].tile_id)

\* The footprint reader has returned its list
FactsRead == input.script = "facts" /\ pc = "load"

\* A row with a non-empty relative_path, valid bounds and a non-empty crs
UsableRow(row) ==
    /\ Strip(OrEmpty(row.relative_path)) # <<>>
    /\ ParseBounds(OrEmpty(row.bounds)).ok
    /\ Strip(OrEmpty(row.crs)) # <<>>

\* The positions of the usable rows of the facts table that normalize to tile_id
RowsOfTile(tile_id) ==
    { i \in DOMAIN input.raster_facts.rows :
        /\ UsableRow(input.raster_facts.rows[i])
        /\ NormalizeTileId(input.raster_facts.rows[i].relative_path) = tile_id }

\* C5: the footprint the reader returns for a tile_id has exactly the bounds
\* and the CRS of the first usable row, in file order, that normalizes to it,
\* and the reader returns one footprint per tile_id.
C5_FirstFootprintWins ==
    FactsRead =>
        /\ \A i, j \in DOMAIN by_tile : by_tile[i].tile_id = by_tile[j].tile_id => i = j
        /\ \A i \in DOMAIN by_tile :
              LET at    == RowsOfTile(by_tile[i].tile_id)
                  first == CHOOSE k \in at : \A m \in at : k <= m
                  row   == input.raster_facts.rows[first]
                  b     == ParseBounds(row.bounds)
              IN  /\ at # {}
                  /\ by_tile[i].minx = b.minx /\ by_tile[i].miny = b.miny
                  /\ by_tile[i].maxx = b.maxx /\ by_tile[i].maxy = b.maxy
                  /\ by_tile[i].crs = Strip(row.crs)

\* Two usable rows of one tile with different bounds were read, after a row
\* of that tile that the reader skipped.
C5_Witness ==
    /\ FactsRead
    /\ \E i \in DOMAIN by_tile :
          LET at == RowsOfTile(by_tile[i].tile_id)
          IN  /\ \E k, m \in at :
                    /\ k < m
                    /\ input.raster_facts.rows[k].bounds # input.raster_facts.rows[m].bounds
              /\ \E u \in DOMAIN input.raster_facts.rows :
                    /\ ~UsableRow(input.raster_facts.rows[u])
                    /\ \A k \in at : u < k
                    /\ NormalizeTileId(input.raster_facts.rows[u].relative_path)
                          = by_tile[i].tile_id

\* No two usable rows of the facts table normalize to one tile_id
NoSharedTile ==
    \A i, j \in DOMAIN input.raster_facts.rows :
        (/\ UsableRow(input.raster_facts.rows[i])
         /\ UsableRow(input.raster_facts.rows[j])
         /\ NormalizeTileId(input.raster_facts.rows[i].relative_path)
               = NormalizeTileId(input.raster_facts.rows[j].relative_path))
        => i = j

\* The arguments of the run with the rows of the facts table in the order p
WithFactsOrder(p) ==
    [input EXCEPT !.raster_facts.rows = [i \in DOMAIN p |-> input.raster_facts.rows[p[i]]]]

\* C6: when no two usable rows of the facts table share a tile_id, the run
\* on any permutation of the table's rows ends as this run ended: with the
\* same error, or with the same output rows in the same order.
C6_PermutationInvariant ==
    (Terminated /\ input.script = "facts" /\ NoSharedTile) =>
        \A p \in Perms(DOMAIN input.raster_facts.rows) :
            BuildTilesOfInterest(WithFactsOrder(p)) = RunOutcome

\* A run over a table of several rows and two CRS groups wrote several rows.
C6_Witness ==
    /\ pc = "done" /\ input.script = "facts" /\ NoSharedTile
    /\ Len(input.raster_facts.rows) >= 2
    /\ Len(joined_parts) >= 2
    /\ Len(output.rows) >= 3

\* `joined`, the union of the parts, once the joins are done
Joined == IF joined_parts = <<>> THEN <<>> ELSE Concat(joined_parts)

\* The tiles of the run: the footprints read, or the analytical grid
TilesOfRun == IF input.script = "facts" THEN by_tile ELSE IterModisTiles

\* Selected region r and tile t intersect, as the run tests it
PairIntersects(r, t) ==
    LET g == ToCrs(r.geometry, input.shapefile.crs, t.crs)
    IN  Intersects(IF input.script = "facts" /\ input.touch_buffer_m > 0
                   THEN Buffer(g, input.touch_buffer_m) ELSE g,
                   Box(t))

\* Output row o carries the codes of region r and the id of tile t
RowOfPair(o, r, t) ==
    /\ o.tile_id = t.tile_id
    /\ (input.shapefile.has_statefp /\ r.STATEFP # None) => o.statefp = ZFill(r.STATEFP, 2)
    /\ (input.shapefile.has_stusps /\ r.STUSPS # None) => o.stusps = Upper(r.STUSPS)

\* C7 as stated: a finished run has exactly one output row for every
\* (selected region, tile) pair that intersects and none for a pair that
\* does not, whichever code columns the boundary source has.
C7_AsStated ==
    pc = "done" =>
        \A j \in DOMAIN gdf : \A i \in DOMAIN TilesOfRun :
            LET hits == { k \in DOMAIN output.rows :
                            RowOfPair(output.rows[k], gdf[j], TilesOfRun[i]) }
            IN  IF PairIntersects(gdf[j], TilesOfRun[i])
                THEN Cardinality(hits) = 1
                ELSE hits = {}

\* The key the rows are to be deduplicated by: the region's FIPS (padded)
\* when it has one, else its abbreviation; and the tile_id
StatedKey(row) ==
    LET fipsval == OrEmpty(RowGet(row.STATEFP, <<>>))
    IN  << IF fipsval # <<>> THEN ZFill(fipsval, 2)
           ELSE Upper(OrEmpty(RowGet(row.STUSPS, <<>>))),
           Lower(row.tile_id) >>

\* C8 as stated: the output has one row for each stated key among the
\* unioned rows (rows are collapsed only when they share the key), and the
\* row kept for a key is the first unioned row with that key.
C8_AsStated ==
    pc = "done" =>
        /\ Len(output.rows) = Cardinality({ StatedKey(Joined[j]) : j \in DOMAIN Joined })
        /\ \A k \in DOMAIN output.rows :
              \E j \in DOMAIN Joined :
                  /\ output.rows[k] = OutRow(input.script, Joined[j])
                  /\ \A m \in 1..(j - 1) : StatedKey(Joined[m]) # StatedKey(Joined[j])

\* C9 as stated: the output rows ascend in (statefp, tile_id) as plain
\* strings, and the row of a region without a FIPS code has an empty
\* statefp field.
C9_AsStated ==
    pc = "done" =>
        /\ \A k, m \in DOMAIN output.rows :
              k < m => KeyLess(output.rows[k], output.rows[m])
        /\ \A j \in DOMAIN Joined : \A k \in DOMAIN output.rows :
              (/\ OrEmpty(RowGet(Joined[j].STATEFP, <<>>)) = <<>>
               /\ output.rows[k] = OutRow(input.script, Joined[j]))
              => output.rows[k].statefp = <<>>

\* C10: a run ends as build_tiles_of_interest computes from its arguments
\* alone, whatever the order in which the joins listed the tiles: two runs
\* on the same arguments end with the same error or the same output rows.
C10_Deterministic ==
    Terminated => RunOutcome = BuildTilesOfInterest(input)

\* A run whose joins did not list the tiles in table order is done.
C10_Witness ==
    /\ pc = "done" /\ input.script = "facts"
    /\ Len(output.rows) >= 2
    /\ joined_parts # JoinAll(input.shapefile, gdf, groups, input.touch_buffer_m, <<>>)

\* No cell of the codes file yields a code: the file is empty, or has only
\* a header, or every cell is blank, under an unmatched column, or a token
\* that normalizes to nothing.
YieldsNoCodes ==
    LET file == input.states_csv
        hdr  == HasHeader(input.script, file)
    IN  \A i \in DOMAIN file.rows :
            (hdr => i > 1) =>
                CodesOfRow(input.script, hdr, IF hdr THEN file.rows[1] ELSE <<>>, file.rows[i])
                    = << {}, {} >>

\* C11: once _read_state_codes has returned, at least one of the two sets
\* is non-empty; and a run whose codes file yields no code has failed in
\* the reader with a ValueError, with no set returned and no later stage run.
C11_CodesRequired ==
    /\ CodesAccepted => fips_interest # {} \/ abbr_interest # {}
    /\ (pc # "codes" /\ YieldsNoCodes) =>
          /\ pc = "failed" /\ error \in CodesErrors
          /\ fips_interest = {} /\ abbr_interest = {}
          /\ by_tile = <<>> /\ gdf = <<>> /\ ~output.written

\* A headered file whose only column is unmatched, with a non-blank cell,
\* was rejected.
C11_Witness ==
    /\ pc = "failed" /\ error = "states csv did not yield any state codes"
    /\ YieldsNoCodes
    /\ HasHeader(input.script, input.states_csv)
    /\ Len(input.states_csv.rows) = 2
    /\ Strip(input.states_csv.rows[2][1]) # <<>>

\* _read_raster_footprints_from_facts has returned its list or raised
FactsReturned ==
    /\ input.script = "facts"
    /\ pc = "load" \/ (pc = "failed" /\ error \in FactsErrors)

\* A row with a non-empty relative_path, a bounds field of exactly four
\* numbers with maxx > minx and maxy > miny, and a non-empty crs
KeepableRow(row) ==
    LET parts == Split(Strip(OrEmpty(row.bounds)), ",")
    IN  /\ Strip(OrEmpty(row.relative_path)) # <<>>
        /\ Strip(OrEmpty(row.crs)) # <<>>
        /\ Len(parts) = 4
        /\ \A k \in 1..4 : ParseFloat(parts[k]).ok
        /\ FloatGreater(ParseFloat(parts[3]), ParseFloat(parts[1]))
        /\ FloatGreater(ParseFloat(parts[4]), ParseFloat(parts[2]))

\* C12: when the footprint reader ends, every footprint it kept is a proper
\* box with a crs and a tile_id and comes from a row with a path, four
\* numeric bounds in order and a crs; the tile of every such row of a
\* headered table is in the list (unless its tile_id normalizes to nothing),
\* whatever other rows the table holds; and the reader has raised exactly
\* when the list is empty.
C12_FactsFilter ==
    FactsReturned =>
        LET rows == input.raster_facts.rows
        IN  /\ \A i \in DOMAIN by_tile :
                  /\ by_tile[i].maxx > by_tile[i].minx /\ by_tile[i].maxy > by_tile[i].miny
                  /\ by_tile[i].crs # <<>> /\ by_tile[i].tile_id # <<>>
                  /\ \E k \in DOMAIN rows :
                        /\ KeepableRow(rows[k])
                        /\ NormalizeTileId(rows[k].relative_path) = by_tile[i].tile_id
                        /\ Strip(rows[k].crs) = by_tile[i].crs
            /\ \A k \in DOMAIN rows :
                  (/\ input.raster_facts.header
                   /\ KeepableRow(rows[k])
                   /\ NormalizeTileId(rows[k].relative_path) # <<>>)
                  => HasTile(by_tile, NormalizeTileId(rows[k].relative_path))
            /\ pc = "failed" <=> by_tile = <<>>

\* The reader returned a list from a table in which it skipped a row.
C12_Witness ==
    /\ FactsReturned /\ pc = "load"
    /\ \E k \in DOMAIN input.raster_facts.rows :
          /\ ~KeepableRow(input.raster_facts.rows[k])
          /\ ~ParseFloat(Split(Strip(OrEmpty(input.raster_facts.rows[k].bounds)), ",")[1]).nan
          /\ Len(Split(Strip(OrEmpty(input.raster_facts.rows[k].bounds)), ",")) = 4
          /\ Strip(OrEmpty(input.raster_facts.rows[k].crs)) # <<>>
          /\ input.raster_facts.rows[k].relative_path # None

\* The run has loaded a boundary source that has features
LoadedFeatures ==
    /\ pc \notin { "codes", "facts", "load" }
    /\ error \notin CodesErrors \cup FactsErrors
    /\ input.shapefile.regions # <<>>

\* A selection criterion is applicable: a code column of the source whose
\* requested set is non-empty
CriterionApplicable ==
    \/ input.shapefile.has_statefp /\ fips_interest # {}
    \/ input.shapefile.has_stusps /\ abbr_interest # {}

\* The run is past region selection and its CRS check
PastSelection ==
    \/ pc \in { "join", "emit", "done" }
    \/ pc = "failed" /\ error \in NoIntersectionErrors

\* C13: a run (of either script) on a source with features and neither
\* code column fails for the missing columns; a run that reached selection
\* with no applicable criterion fails with nothing selected; and in a run
\* past selection the selected regions are exactly the regions of the
\* source, in source order, whose padded STATEFP or uppercased STUSPS is
\* requested under a column the source has, at least one of them.
C13_Selection ==
    /\ (LoadedFeatures /\ ~input.shapefile.has_statefp /\ ~input.shapefile.has_stusps) =>
          /\ pc = "failed"
          /\ error = "state shapefile missing STATEFP and STUSPS columns"
          /\ gdf = <<>>
    /\ (ReachedSelection /\ pc # "select" /\ ~CriterionApplicable) =>
          /\ pc = "failed"
          /\ error = "no matching state columns found for provided codes"
          /\ gdf = <<>>
    /\ PastSelection =>
          /\ gdf = SelectSeq(input.shapefile.regions, Corresponds)
          /\ gdf # <<>>

\* A run selected one region by its FIPS code alone and another by its
\* abbreviation alone.
C13_Witness ==
    /\ pc = "done"
    /\ input.shapefile.has_statefp /\ input.shapefile.has_stusps
    /\ \E i, j \in DOMAIN gdf :
          /\ ZFill(StrOf(gdf[i].STATEFP), 2) \in fips_interest
          /\ Upper(StrOf(gdf[i].STUSPS)) \notin abbr_interest
          /\ Upper(StrOf(gdf[j].STUSPS)) \in abbr_interest
          /\ ZFill(StrOf(gdf[j].STATEFP), 2) \notin fips_interest

\* Some tile of CRS group g meets a selected region that has a geometry
GroupHasMatch(g) ==
    \E j \in DOMAIN gdf : \E t \in DOMAIN g[2] :
        gdf[j].geometry.kind = "rect" /\ PairIntersects(gdf[j], g[2][t])

\* The number of CRS groups the loop has been through
GroupsProcessed == IF pc = "join" THEN idx - 1 ELSE Len(groups)

\* C14: in the facts-derived resolver, during and after the loop over the
\* CRS groups, there is one joined part for each processed group that has
\* a match, holding a row for each of the group's matching tiles, whatever
\* the other groups yielded; the run fails after the loop exactly when no
\* group has a match, and a finished run has a row for every matching tile.
C14_GroupsAccumulate ==
    (input.script = "facts" /\ PastSelection) =>
        LET done == { k \in 1..GroupsProcessed : GroupHasMatch(groups[k]) }
        IN  /\ Len(joined_parts) = Cardinality(done)
            /\ \A k \in done : \A t \in DOMAIN groups[k][2] :
                  (\E j \in DOMAIN gdf :
                       gdf[j].geometry.kind = "rect" /\ PairIntersects(gdf[j], groups[k][2][t]))
                  => /\ \E p \in DOMAIN joined_parts : \E r \in DOMAIN joined_parts[p].rows :
                            joined_parts[p].rows[r].tile_id = groups[k][2][t].tile_id
                     /\ pc = "done" => HasRowFor(groups[k][2][t].tile_id)
            /\ pc = "failed" <=> (pc \notin { "join", "emit" } /\ done = {})
            /\ pc = "failed" => error = "no raster_facts footprints intersect selected states"

\* A run whose first CRS group had no match finished with the rows of
\* its second group.
C14_Witness ==
    /\ input.script = "facts" /\ pc = "done"
    /\ Len(groups) = 2
    /\ ~GroupHasMatch(groups[1]) /\ GroupHasMatch(groups[2])
    /\ output.rows # <<>>

\* The code of a selected region under a column: its text, or nothing when
\* the source lacks the column or the region has a null there
CodeOf(has_column, value) == IF has_column /\ value # None THEN value ELSE <<>>

\* A grid index of the output is the footprint's when that is an integer,
\* and an empty field otherwise
IndexField(out, parsed) ==
    IF parsed.k = "int" THEN out = IntVal(parsed.n) ELSE out = Blank

\* C15: in a finished facts-derived run every output row has the FIPS of a
\* selected region zero-padded to two characters and that region's
\* abbreviation in upper case, a non-empty lower-case tile_id of a footprint,
\* and h and v equal to the footprint's parsed indices as integers, or empty
\* where the footprint has none; and a matching footprint without indices
\* still has its row.
C15_RowsNormalized ==
    (input.script = "facts" /\ pc = "done") =>
        /\ \A k \in DOMAIN output.rows :
              LET row == output.rows[k]
              IN  /\ \E j \in DOMAIN gdf :
                        /\ row.statefp = ZFill(CodeOf(input.shapefile.has_statefp, gdf[j].STATEFP), 2)
                        /\ row.stusps = Upper(CodeOf(input.shapefile.has_stusps, gdf[j].STUSPS))
                  /\ Len(row.statefp) >= 2
                  /\ \A i \in DOMAIN row.stusps : ~IsLower(row.stusps[i])
                  /\ row.tile_id # <<>>
                  /\ \A i \in DOMAIN row.tile_id : ~IsUpper(row.tile_id[i])
                  /\ row.h.k \in { "int", "blank" } /\ row.v.k \in { "int", "blank" }
                  /\ \E t \in DOMAIN by_tile :
                        /\ by_tile[t].tile_id = row.tile_id
                        /\ IndexField(row.h, by_tile[t].h)
                        /\ IndexField(row.v, by_tile[t].v)
        /\ \A t \in DOMAIN by_tile :
              (/\ by_tile[t].h.k # "int"
               /\ \E j \in DOMAIN gdf :
                     gdf[j].geometry.kind = "rect" /\ PairIntersects(gdf[j], by_tile[t]))
              => HasRowFor(by_tile[t].tile_id)

\* A finished run wrote a row with empty h and v beside a row whose integer
\* indices went through a float column.
C15_Witness ==
    /\ input.script = "facts" /\ pc = "done"
    /\ \E p \in DOMAIN joined_parts : joined_parts[p].hd = "float64"
    /\ \E k, m \in DOMAIN output.rows :
          /\ output.rows[k].h = Blank /\ output.rows[k].v = Blank
          /\ output.rows[m].h.k = "int"

\* The squared distance between region r as loaded, reprojected into the
\* CRS of footprint t, and the box of t's parsed bounds; -1 when the region
\* has no geometry to test
Distance2(r, t) ==
    LET g  == ToCrs(r.geometry, input.shapefile.crs, t.crs)
        dx == Max3(0, t.minx - g.maxx, g.minx - t.maxx)
        dy == Max3(0, t.miny - g.maxy, g.miny - t.maxy)
    IN  IF g.kind = "rect" THEN dx * dx + dy * dy ELSE 0 - 1

\* Region r, grown once by the tolerance, meets footprint t
MeetsOnce(r, t) ==
    /\ Distance2(r, t) >= 0
    /\ Distance2(r, t) <= input.touch_buffer_m * input.touch_buffer_m

\* The value of a code column in a joined row
ColumnOf(has_column, value) == IF has_column THEN value ELSE Missing

\* The (STATEFP, STUSPS, tile_id) triples of the selected regions and the
\* footprints of CRS group g that meet
PairsOfGroup(g) ==
    UNION { { << ColumnOf(input.shapefile.has_statefp, gdf[j].STATEFP),
                 ColumnOf(input.shapefile.has_stusps, gdf[j].STUSPS),
                 g[2][t].tile_id >> :
                    j \in { i \in DOMAIN gdf : MeetsOnce(gdf[i], g[2][t]) } } :
            t \in DOMAIN g[2] }

\* C16: during and after the loop over the CRS groups of the facts-derived
\* resolver, the selected regions are still the selection as loaded, the
\* footprints are still those parsed from the table and the groups their
\* grouping; and the joined rows are exactly the pairs of a selected region
\* and a footprint of a processed group that meet with the region grown
\* once by the tolerance and the footprint's box as parsed, whatever groups
\* came before.
C16_GroupsReadOnly ==
    (input.script = "facts" /\ PastSelection) =>
        /\ gdf = Selected(input.shapefile, fips_interest, abbr_interest)
        /\ by_tile = FactsFold(<<>>, input.raster_facts.rows)
        /\ groups = GroupByCrs(<<>>, by_tile)
        /\ UNION { { << joined_parts[p].rows[r].STATEFP, joined_parts[p].rows[r].STUSPS,
                        joined_parts[p].rows[r].tile_id >> :
                           r \in DOMAIN joined_parts[p].rows } :
                     p \in DOMAIN joined_parts }
             = UNION { PairsOfGroup(groups[k]) : k \in 1..GroupsProcessed }

\* With a positive tolerance, a second CRS group was processed in which a
\* footprint lies further than the tolerance, and within twice the
\* tolerance, from a selected region.
C16_Witness ==
    /\ input.script = "facts" /\ pc = "done"
    /\ input.touch_buffer_m > 0
    /\ Len(groups) = 2
    /\ \E t \in DOMAIN groups[2][2] : \E j \in DOMAIN gdf :
          /\ Distance2(gdf[j], groups[2][2][t]) > input.touch_buffer_m * input.touch_buffer_m
          /\ Distance2(gdf[j], groups[2][2][t]) <= 4 * input.touch_buffer_m * input.touch_buffer_m

\* The hXXvYY token of a path, in lower case
TokenOf(path) == Lower(TileSearch(Strip(OrEmpty(path))))

\* C17: in the list the footprint reader returned no tile_id has an
\* upper-case letter and no two footprints share a tile_id, and the rows
\* whose path tokens differ only in case stand for one footprint; and the
\* CRS groups, once formed, have distinct keys and partition the
\* footprints, so that each tile_id lies in exactly one group.
C17_TileIdsUnique ==
    (input.script = "facts" /\ pc \notin { "codes", "facts" }) =>
        /\ \A i \in DOMAIN by_tile : \A c \in DOMAIN by_tile[i].tile_id :
              ~IsUpper(by_tile[i].tile_id[c])
        /\ \A i, j \in DOMAIN by_tile : by_tile[i].tile_id = by_tile[j].tile_id => i = j
        /\ pc = "load" =>
              \A k \in DOMAIN input.raster_facts.rows :
                  (KeepableRow(input.raster_facts.rows[k])
                      /\ TokenOf(input.raster_facts.rows[k].relative_path) # <<>>)
                  => Cardinality({ i \in DOMAIN by_tile :
                                      by_tile[i].tile_id
                                         = TokenOf(input.raster_facts.rows[k].relative_path) }) = 1
        /\ PastSelection =>
              /\ \A g, h \in DOMAIN groups : groups[g][1] = groups[h][1] => g = h
              /\ \A g \in DOMAIN groups :
                    /\ groups[g][2] # <<>>
                    /\ \A t \in DOMAIN groups[g][2] : groups[g][2][t].crs = groups[g][1]
              /\ \A i \in DOMAIN by_tile :
                    Cardinality({ << g, t >> \in (DOMAIN groups) \X (1..Len(by_tile)) :
                                     /\ t <= Len(groups[g][2])
                                     /\ groups[g][2][t].tile_id = by_tile[i].tile_id }) = 1
              /\ \A g \in DOMAIN groups : \A t \in DOMAIN groups[g][2] :
                    \E i \in DOMAIN by_tile : by_tile[i] = groups[g][2][t]

\* Two rows whose tokens differ only in case, with different CRS strings,
\* were read as one footprint, and the footprints fell into two CRS groups.
C17_Witness ==
    /\ input.script = "facts" /\ PastSelection
    /\ Len(groups) = 2
    /\ \E k, m \in DOMAIN input.raster_facts.rows :
          /\ KeepableRow(input.raster_facts.rows[k]) /\ KeepableRow(input.raster_facts.rows[m])
          /\ TileSearch(input.raster_facts.rows[k].relative_path)
                # TileSearch(input.raster_facts.rows[m].relative_path)
          /\ TokenOf(input.raster_facts.rows[k].relative_path)
                = TokenOf(input.raster_facts.rows[m].relative_path)
          /\ Strip(input.raster_facts.rows[k].crs) # Strip(input.raster_facts.rows[m].crs)

\* The tiles of the analytical grid: one for each (h, v) of the index
\* range, with pairwise distinct identifiers of the form hHHvVV
GridIndexed ==
    /\ Len(IterModisTiles) = 648
    /\ \A h \in 0..35, v \in 0..17 :
          Cardinality({ i \in DOMAIN ModisGrid : ModisGrid[i].h = h /\ ModisGrid[i].v = v }) = 1
    /\ \A i \in DOMAIN IterModisTiles :
          /\ IterModisTiles[i].h = IntVal(ModisGrid[i].h)
          /\ IterModisTiles[i].v = IntVal(ModisGrid[i].v)
          /\ IterModisTiles[i].tile_id
                = << "h" >> \o TwoDigits(ModisGrid[i].h) \o << "v" >> \o TwoDigits(ModisGrid[i].v)
          /\ Len(IterModisTiles[i].tile_id) = 6
    /\ \A i, j \in DOMAIN IterModisTiles :
          IterModisTiles[i].tile_id = IterModisTiles[j].tile_id => i = j

\* h grows rightward and v grows downward
GridOriented ==
    \A i, j \in DOMAIN ModisGrid :
        /\ ModisGrid[i].h < ModisGrid[j].h => F64Less(ModisGrid[i].minx, ModisGrid[j].minx)
        /\ ModisGrid[i].v < ModisGrid[j].v => F64Less(ModisGrid[j].maxy, ModisGrid[i].maxy)

\* Every tile is as wide and as high as the tile size
GridSquares ==
    \A i \in DOMAIN ModisGrid :
        /\ ExactSub(ModisGrid[i].maxx, ModisGrid[i].minx) = MODIS_TILE_SIZE
        /\ ExactSub(ModisGrid[i].maxy, ModisGrid[i].miny) = MODIS_TILE_SIZE

\* A tile ends where its right and its lower neighbour begin
GridEdgesShared ==
    \A i, j \in DOMAIN ModisGrid :
        /\ (ModisGrid[j].h = ModisGrid[i].h + 1 /\ ModisGrid[j].v = ModisGrid[i].v)
              => ModisGrid[i].maxx = ModisGrid[j].minx
        /\ (ModisGrid[j].v = ModisGrid[i].v + 1 /\ ModisGrid[j].h = ModisGrid[i].h)
              => ModisGrid[i].miny = ModisGrid[j].maxy

\* No two tiles have a common interior point
GridInteriorsDisjoint ==
    \A i, j \in DOMAIN ModisGrid :
        i # j => \/ F64LessEq(ModisGrid[i].maxx, ModisGrid[j].minx)
                 \/ F64LessEq(ModisGrid[j].maxx, ModisGrid[i].minx)
                 \/ F64LessEq(ModisGrid[i].maxy, ModisGrid[j].miny)
                 \/ F64LessEq(ModisGrid[j].maxy, ModisGrid[i].miny)

\* C18 (as stated): the analytical provider hands the join one tile for
\* each (h, v) with 0 <= h <= 35 and 0 <= v <= 17, with pairwise distinct
\* identifiers hHHvVV; every tile is a square of the tile size, h grows
\* rightward and v downward, neighbouring tiles share exactly an edge, and
\* no two tiles overlap in their interiors.
C18_AsStated ==
    (input.script = "analytical" /\ pc = "join") =>
        /\ GridIndexed
        /\ GridOriented
        /\ GridSquares
        /\ GridEdgesShared
        /\ GridInteriorsDisjoint

\* What the extraction of a tile comes to, from the run's arguments: no
\* field raster, a failure, or features
TileOutcome(tile_id) ==
    LET candidates == CandidateRasters(TileDir(input.fields_dir, tile_id))
    IN  IF candidates = <<>> THEN "missing"
        ELSE IF FeatureRowsForRaster(tile_id, candidates[1])[1] # "" THEN "failed"
        ELSE "ok"

FeaturesOfTile(tile_id) ==
    FeatureRowsForRaster(tile_id, CandidateRasters(TileDir(input.fields_dir, tile_id))[1])[2]

\* The tiles among the first n with the given outcome
TilesWith(n, outcome) == { i \in 1..n : TileOutcome(tile_ids[i]) = outcome }

\* The features of the tiles among the first n that were extracted, in order
RECURSIVE FeaturesUpTo(_)
FeaturesUpTo(n) ==
    IF n = 0 THEN <<>>
    ELSE FeaturesUpTo(n - 1)
            \o (IF TileOutcome(tile_ids[n]) = "ok" THEN FeaturesOfTile(tile_ids[n]) ELSE <<>>)

\* C19: in the polygon extraction a tile whose extraction fails is entered
\* in the error list and the loop goes on: the run fails only before its
\* first tile, every tile of the tiles csv is counted once as ok, missing
\* a raster or failed, the error list holds the failed tiles and nothing
\* else, and feature_count is the number of features written, which are
\* those of the tiles counted as ok. The summary written at the end
\* carries these numbers, so that tiles_requested = tiles_ok +
\* tiles_missing_raster + tiles_failed.
C19_FailuresRecorded ==
    input.script = "ndjson" =>
        /\ pc = "failed" => (tile_ids = <<>> /\ ~ndjson.opened /\ ~summary.written)
        /\ pc \in { "tiles", "done" } =>
              /\ tile_ids = ReadTilesOfInterest(input.tiles_csv)[2]
              /\ idx - 1 <= Len(tile_ids)
              /\ tile_ok + tile_missing + tile_errors = idx - 1
              /\ tile_ok = Cardinality(TilesWith(idx - 1, "ok"))
              /\ tile_missing = Cardinality(TilesWith(idx - 1, "missing"))
              /\ tile_errors = Cardinality(TilesWith(idx - 1, "failed"))
              /\ Len(errors) = tile_errors
              /\ { errors[e].tile_id : e \in DOMAIN errors }
                    = { tile_ids[i] : i \in TilesWith(idx - 1, "failed") }
              /\ ndjson.lines = FeaturesUpTo(idx - 1)
              /\ feature_count = Len(ndjson.lines)
        /\ pc = "done" =>
              /\ summary.written
              /\ summary.tiles_requested = Len(tile_ids)
              /\ summary.tiles_requested
                    = summary.tiles_ok + summary.tiles_missing_raster + summary.tiles_failed
              /\ summary.tiles_ok = Cardinality(TilesWith(Len(tile_ids), "ok"))
              /\ Len(summary.errors) = summary.tiles_failed
              /\ summary.errors = errors
              /\ summary.feature_count = Len(ndjson.lines)
              /\ \A l \in DOMAIN ndjson.lines : TileOutcome(ndjson.lines[l].tile_id) = "ok"

\* A finished extraction in which a tile failed, a later tile was extracted
\* with features, and a tile had no raster
C19_Witness ==
    /\ input.script = "ndjson" /\ pc = "done"
    /\ summary.tiles_missing_raster > 0
    /\ \E i, j \in DOMAIN tile_ids :
          /\ i < j
          /\ TileOutcome(tile_ids[i]) = "failed"
          /\ \E e \in DOMAIN summary.errors : summary.errors[e].tile_id = tile_ids[i]
          /\ TileOutcome(tile_ids[j]) = "ok"
          /\ \E l \in DOMAIN ndjson.lines : ndjson.lines[l].tile_id = tile_ids[j]

\* The requested codes that no region of the boundary source carries, under
\* the code columns the source has
AbsentFips ==
    IF input.shapefile.has_statefp
    THEN { f \in fips_interest :
              \A i \in DOMAIN input.shapefile.regions :
                  ZFill(StrOf(input.shapefile.regions[i].STATEFP), 2) # f }
    ELSE {}
AbsentAbbr ==
    IF input.shapefile.has_stusps
    THEN { a \in abbr_interest :
              \A i \in DOMAIN input.shapefile.regions :
                  Upper(StrOf(input.shapefile.regions[i].STUSPS)) # a }
    ELSE {}

\* Region selection has been decided, one way or the other
SelectionDecided == ReachedSelection /\ pc # "select"

\* C20: a run of the facts-derived resolver in which a requested code is
\* absent from the boundary source fails at selection with nothing
\* selected, whatever the other requested codes match, so a run that gets
\* past selection has every requested code present; the mask, when it is
\* applied, never comes out empty. A run of the analytical resolver never
\* fails for an absent code: it goes on with the regions that match, and
\* fails for no match only when none does.
C20_AllRequestedPresent ==
    /\ (input.script = "facts" /\ SelectionDecided) =>
          /\ (AbsentFips # {} \/ AbsentAbbr # {}) =>
                /\ pc = "failed"
                /\ error = "requested states not found in state shapefile"
                /\ gdf = <<>>
          /\ (pc # "failed" \/ error \in NoIntersectionErrors \cup { "state shapefile missing CRS" }) =>
                /\ AbsentFips = {} /\ AbsentAbbr = {}
                /\ \E i \in DOMAIN input.shapefile.regions : Corresponds(input.shapefile.regions[i])
          /\ error # "no states matched states.of.interest.csv"
    /\ (input.script = "analytical" /\ SelectionDecided) =>
          /\ error # "requested states not found in state shapefile"
          /\ (\E i \in DOMAIN input.shapefile.regions : Corresponds(input.shapefile.regions[i]))
                => /\ error \notin NoMatchErrors
                   /\ (input.shapefile.crs # None =>
                          gdf = SelectSeq(input.shapefile.regions, Corresponds))
          /\ (CriterionApplicable
                /\ ~\E i \in DOMAIN input.shapefile.regions : Corresponds(input.shapefile.regions[i]))
                => error = "no states matched states.of.interest.csv"

\* A run of the facts-derived resolver failed for an absent code although
\* another requested code is carried by a region of the source.
C20_Witness ==
    /\ input.script = "facts" /\ SelectionDecided
    /\ pc = "failed" /\ error = "requested states not found in state shapefile"
    /\ AbsentFips \cup AbsentAbbr # {}
    /\ \E i \in DOMAIN input.shapefile.regions : Corresponds(input.shapefile.regions[i])

\* The stages of the facts-derived resolver in the order of its code, and
\* the failure conditions of the arguments, stage by stage
Stages == << "codes", "facts", "load", "select", "join", "emit", "done" >>

CodesUnusable == ReadStateCodes("facts", input.states_csv)[1] # ""
FactsUnusable == ReadRasterFootprints(input.raster_facts)[1] # ""
BoundaryEmpty == input.shapefile.regions = <<>>
ColumnsMissing == ~input.shapefile.has_statefp /\ ~input.shapefile.has_stusps
SelectionFails ==
    LET codes == ReadStateCodes("facts", input.states_csv)
        shp   == input.shapefile
        fips  == IF shp.has_statefp THEN codes[2] ELSE {}
        abbr  == IF shp.has_stusps THEN codes[3] ELSE {}
    IN  \/ \E f \in fips : \A i \in DOMAIN shp.regions : ZFill(StrOf(shp.regions[i].STATEFP), 2) # f
        \/ \E a \in abbr : \A i \in DOMAIN shp.regions : Upper(StrOf(shp.regions[i].STUSPS)) # a
        \/ fips = {} /\ abbr = {}
CrsMissing == input.shapefile.crs = None
NothingIntersects ==
    LET fps == ReadRasterFootprints(input.raster_facts)[2]
    IN  \A i \in DOMAIN input.shapefile.regions : \A t \in DOMAIN fps :
            ~(/\ Corresponds(input.shapefile.regions[i])
              /\ input.shapefile.regions[i].geometry.kind = "rect"
              /\ PairIntersects(input.shapefile.regions[i], fps[t]))

\* The earliest condition that holds, in the order of the stages
FirstFailure ==
    IF CodesUnusable THEN "codes"
    ELSE IF FactsUnusable THEN "facts"
    ELSE IF BoundaryEmpty THEN "empty"
    ELSE IF ColumnsMissing THEN "columns"
    ELSE IF SelectionFails THEN "selection"
    ELSE IF CrsMissing THEN "crs"
    ELSE IF NothingIntersects THEN "intersection"
    ELSE "none"

\* The condition an error message stands for
FailureOf(msg) ==
    IF msg \in CodesErrors THEN "codes"
    ELSE IF msg \in FactsErrors THEN "facts"
    ELSE IF msg = "state shapefile has no features" THEN "empty"
    ELSE IF msg = "state shapefile missing STATEFP and STUSPS columns" THEN "columns"
    ELSE IF msg \in NoMatchErrors THEN "selection"
    ELSE IF msg = "state shapefile missing CRS" THEN "crs"
    ELSE IF msg \in NoIntersectionErrors THEN "intersection"
    ELSE "none"

\* How a run of the facts-derived resolver ends: with the earliest of the
\* conditions that hold, nothing of a later stage done, and the output
\* written only when none holds
EndsWithFirstFailure ==
    input.script = "facts" =>
        /\ output.written => (pc = "done" /\ error = "" /\ FirstFailure = "none")
        /\ pc = "done" => (output.written /\ error = "")
        /\ pc # "failed" => error = ""
        /\ Terminated =>
              /\ FailureOf(error) = FirstFailure
              /\ pc = "failed" <=> FirstFailure # "none"
        /\ pc = "failed" =>
              /\ FailureOf(error) # "none"
              /\ ~output.written /\ output.rows = <<>>
              /\ FailureOf(error) = "codes" => by_tile = <<>>
              /\ FailureOf(error) \in { "codes", "facts", "empty", "columns", "selection", "crs" }
                    => (gdf = <<>> /\ groups = <<>>)
              /\ joined_parts = <<>>

\* A step of the facts-derived resolver: a failed run takes none, the
\* stages follow one another in their order, and the output is written by
\* the last step alone
StepsInOrder ==
    input.script = "facts" =>
        /\ pc # "failed"
        /\ pc' # "failed" => IndexOf(pc, Stages) <= IndexOf(pc', Stages)
        /\ output' # output => (pc = "emit" /\ pc' = "done")
        /\ error' # error => (error = "" /\ pc' = "failed")

\* C21: every run of the facts-derived resolver goes through its stages in
\* the fixed order (codes, facts, boundary features, code columns,
\* selection, source CRS, intersection); it ends with the failure of the
\* earliest condition that holds for its arguments, a failure is its last
\* step and leaves the later stages undone, and the output is written only
\* by the final step of a run in which no condition holds.
C21_FailureOrder == [](EndsWithFirstFailure) /\ [][StepsInOrder]_vars

\* A run failed at selection although its boundary source also lacks a
\* CRS, and a later condition (no intersection) was never looked at.
C21_Witness ==
    /\ input.script = "facts" /\ pc = "failed"
    /\ FailureOf(error) = "selection"
    /\ SelectionFails /\ CrsMissing
    /\ ~CodesUnusable /\ ~FactsUnusable /\ ~BoundaryEmpty /\ ~ColumnsMissing

====
